---- MODULE Spec2Model ----
(***************************************************************************)
(* A model of the rtrv search engine: the document store, the inverted     *)
(* index, the id counter, the query cache and the snapshot codec, with one *)
(* action per public operation of SearchEngine.                            *)
(*                                                                         *)
(* Text is modelled at the level of words.  Word 0 is a stop word ("the"), *)
(* which the tokenizer drops; words 1..NumTerms are ordinary lower-case    *)
(* words, none of which is a substring of another, so the rankers'         *)
(* substring scan counts whole words.                                      *)
(***************************************************************************)
EXTENDS Integers, Sequences, FiniteSets, TLC

\* ------------------------------------------------------------------ bounds
NumTerms == 1
MaxLen == 2
MaxId == 2
MaxCalls == 3
MaxGarbage == 1

\* ------------------------------------------------------- program constants
SNAPSHOT_MAGIC == 1397047634
SNAPSHOT_VERSION == 1

StopWord == 0
Terms == 1..NumTerms
Words == 0..NumTerms
\* the term a failed read leaves behind: a string of NUL bytes
GarbageTerm == -1

RECURSIVE SeqsUpTo(_, _)
SeqsUpTo(S, n) ==
    IF n = 0 THEN {<<>>}
    ELSE LET shorter == SeqsUpTo(S, n - 1)
         IN  shorter \cup {Append(s, x) : s \in {t \in shorter : Len(t) = n - 1}, x \in S}

Texts == SeqsUpTo(Words, MaxLen)

Range(s) == {s[i] : i \in DOMAIN s}

EmptyMap == <<>>

\* ------------------------------------------------------------- tokenizer
\* Tokenizer::tokenize with the default configuration: lower-case words,
\* stop words removed, no stemming.
RECURSIVE tokenize(_)
tokenize(text) ==
    IF text = <<>> THEN <<>>
    ELSE IF Head(text) = StopWord THEN tokenize(Tail(text))
         ELSE <<Head(text)>> \o tokenize(Tail(text))

\* ------------------------------------------------------------ inverted index
Posting(doc_id, term_frequency) ==
    [doc_id |-> doc_id, term_frequency |-> term_frequency, positions |-> <<>>]

\* position of the first posting of doc_id in a posting list, 0 when absent
RECURSIVE FindPosting(_, _, _)
FindPosting(postings, doc_id, i) ==
    IF i > Len(postings) THEN 0
    ELSE IF postings[i].doc_id = doc_id THEN i
         ELSE FindPosting(postings, doc_id, i + 1)

PostingsOf(idx, term) == IF term \in DOMAIN idx THEN idx[term] ELSE <<>>

MapPut(m, k, v) == [x \in (DOMAIN m) \cup {k} |-> IF x = k THEN v ELSE m[x]]

MapRemove(m, k) == [x \in (DOMAIN m) \ {k} |-> m[x]]

\* an addTerm that appends a posting whether the list holds the doc_id or not
appendPosting(idx, term, doc_id, position) ==
    MapPut(idx, term, Append(PostingsOf(idx, term), Posting(doc_id, 1)))

\* InvertedIndex::addTerm
addTerm(idx, term, doc_id, position) ==
    LET postings == PostingsOf(idx, term)
        i == FindPosting(postings, doc_id, 1)
    IN  IF i # 0
        THEN LET p == postings[i]
                 q == [p EXCEPT !.term_frequency = p.term_frequency + 1,
                                !.positions = IF position > 0
                                              THEN Append(p.positions, position)
                                              ELSE p.positions]
             IN  MapPut(idx, term, [postings EXCEPT ![i] = q])
        ELSE LET p == Posting(doc_id, 1)
                 q == [p EXCEPT !.positions = IF position > 0 THEN <<position>> ELSE <<>>]
             IN  MapPut(idx, term, Append(postings, q))

RECURSIVE RemoveIf(_, _)
RemoveIf(postings, doc_id) ==
    IF postings = <<>> THEN <<>>
    ELSE IF Head(postings).doc_id = doc_id THEN RemoveIf(Tail(postings), doc_id)
         ELSE <<Head(postings)>> \o RemoveIf(Tail(postings), doc_id)

\* InvertedIndex::removeDocument
removeDocument(idx, doc_id) ==
    LET stripped == [t \in DOMAIN idx |-> RemoveIf(idx[t], doc_id)]
    IN  [t \in {u \in DOMAIN stripped : stripped[u] # <<>>} |-> stripped[t]]

getDocumentFrequency(idx, term) == Len(PostingsOf(idx, term))

getTermCount(idx) == Cardinality(DOMAIN idx)

\* ------------------------------------------------------------------ state
VARIABLES
    documents,      \* SearchEngine::documents_ : doc id -> Document
    index,          \* InvertedIndex::index_ : term -> posting list
    next_doc_id,    \* SearchEngine::next_doc_id_
    query_cache,    \* QueryCache::entries_ : key -> results
    hit_count,      \* QueryCache::hit_count_
    miss_count,     \* QueryCache::miss_count_
    eviction_count, \* QueryCache::eviction_count_
    file,           \* the snapshot file on disk
    snap,           \* history: the engine state the last saveSnapshot wrote
    lastOp,         \* history: the last completed call, its argument and result
    calls,          \* history: how many calls were made
    mutex_,         \* SearchEngine::mutex_ : its unique owner and its shared owners
    thread,         \* each thread's position in the call it is making
    fuzzy_search_,  \* FuzzySearch::index_built_ and FuzzySearch::vocabulary_
    skips,          \* PostingList::skip_pointers and skips_dirty_ of each term
    added,          \* history: the (term, doc_id) pairs added and not removed
    top_k,          \* a BoundedPriorityQueue: its capacity and its heap
    cache,          \* a QueryCache used on its own, its callers and the clock
    ngrams,         \* a FuzzySearch used on its own: its n-gram index and vocabulary
    access,         \* the unsynchronized objects each thread is reading or writing
    ranker_registry_ \* RankerRegistry::rankers_ and RankerRegistry::default_ranker_

vars == <<documents, index, next_doc_id, query_cache, hit_count, miss_count,
          eviction_count, file, snap, lastOp, calls, mutex_, thread,
          fuzzy_search_, skips, added, top_k, cache, ngrams, access, ranker_registry_>>

engineVars == <<documents, index, next_doc_id>>
cacheVars == <<query_cache, hit_count, miss_count, eviction_count>>
\* the state of the library classes that the engine operations do not read
moreLib == <<cache, ngrams, access, ranker_registry_>>
libVars == <<skips, added, top_k, moreLib>>

\* the threads that call updateDocument and the threads that call search
Updaters == {"u1"}
Readers == {"r1", "r2"}
Threads == Updaters \cup Readers

Idle == [pc |-> "idle"]
Unlocked == [unique |-> "none", shared |-> {}]

\* ------------------------------------------------------------ documents
\* Document with the single field "content".  Document::id is 32 bits wide and
\* the ids of the model stay far below 2^32, so no id is truncated.
Document(id, text) == [id |-> id, text |-> text, term_count |-> 0]

\* Document::getAllText: the field values (here one), as words
getAllText(doc) == doc.text

RECURSIVE AddTokens(_, _, _, _)
AddTokens(idx, tokens, doc_id, position) ==
    IF tokens = <<>> THEN idx
    ELSE AddTokens(addTerm(idx, Head(tokens), doc_id, position),
                   Tail(tokens), doc_id, position + 1)

\* SearchEngine::indexDocumentInternal
indexDocumentInternal(docs, idx, next, doc) ==
    LET doc_id == IF doc.id > 0 THEN doc.id ELSE next
        tokens == tokenize(getAllText(doc))
        indexed_doc == [id |-> doc_id, text |-> doc.text,
                        term_count |-> Len(tokens)]
    IN  [doc_id |-> doc_id,
         next_doc_id |-> IF doc.id > 0 THEN next ELSE next + 1,
         index |-> AddTokens(idx, tokens, doc_id, 0),
         documents |-> MapPut(docs, doc_id, indexed_doc)]

\* the fuzzy part of indexDocumentInternal: once the n-gram index is built,
\* FuzzySearch::addTerm puts every token of the document in its vocabulary
FuzzyAddTerms(fuzzy, doc) ==
    IF fuzzy.index_built_
    THEN [fuzzy EXCEPT !.vocabulary_ = @ \cup Range(tokenize(getAllText(doc)))]
    ELSE fuzzy

RECURSIVE FuzzyAddAll(_, _)
FuzzyAddAll(fuzzy, batch) ==
    IF batch = <<>> THEN fuzzy
    ELSE FuzzyAddAll(FuzzyAddTerms(fuzzy, Head(batch)), Tail(batch))

\* a clear that leaves the entries in place
QueryCacheKeep(entries) == entries

\* QueryCache::clear
QueryCacheClear(entries) == EmptyMap

\* SearchEngine::indexDocument
IndexDocument(doc) ==
    /\ calls < MaxCalls
    /\ LET r == indexDocumentInternal(documents, index, next_doc_id, doc)
       IN  /\ r.doc_id <= MaxId
           /\ documents' = r.documents
           /\ index' = r.index
           /\ next_doc_id' = r.next_doc_id
           /\ query_cache' = QueryCacheClear(query_cache)
           /\ lastOp' = [op |-> "indexDocument", arg |-> doc, ret |-> r.doc_id]
    /\ calls' = calls + 1
    /\ UNCHANGED <<hit_count, miss_count, eviction_count, file, snap, mutex_, thread>>
    /\ fuzzy_search_' = FuzzyAddTerms(fuzzy_search_, doc)
    /\ UNCHANGED libVars

\* SearchEngine::updateDocument
UpdateDocument(doc_id, doc) ==
    /\ calls < MaxCalls
    /\ IF doc_id \notin DOMAIN documents
       THEN /\ lastOp' = [op |-> "updateDocument", arg |-> doc_id, ret |-> FALSE]
            /\ UNCHANGED <<engineVars, query_cache>>
       ELSE LET updated_doc == [doc EXCEPT !.id = doc_id]
                r == indexDocumentInternal(documents, removeDocument(index, doc_id),
                                           next_doc_id, updated_doc)
            IN  /\ documents' = r.documents
                /\ index' = r.index
                /\ next_doc_id' = r.next_doc_id
                /\ query_cache' = QueryCacheClear(query_cache)
                /\ lastOp' = [op |-> "updateDocument", arg |-> doc_id, ret |-> TRUE]
    /\ calls' = calls + 1
    /\ UNCHANGED <<hit_count, miss_count, eviction_count, file, snap, mutex_, thread>>
    /\ fuzzy_search_' = IF doc_id \in DOMAIN documents
                        THEN FuzzyAddTerms(fuzzy_search_, doc)
                        ELSE fuzzy_search_
    /\ UNCHANGED libVars

\* a deleteDocument without the check that the document exists
DeleteUnchecked(doc_id) ==
    /\ calls < MaxCalls
    /\ index' = removeDocument(index, doc_id)
    /\ documents' = MapRemove(documents, doc_id)
    /\ query_cache' = QueryCacheClear(query_cache)
    /\ lastOp' = [op |-> "deleteDocument", arg |-> doc_id, ret |-> TRUE]
    /\ calls' = calls + 1
    /\ UNCHANGED <<next_doc_id, hit_count, miss_count, eviction_count, file, snap>>
    /\ UNCHANGED <<mutex_, thread, fuzzy_search_, libVars>>

\* SearchEngine::deleteDocument
DeleteDocument(doc_id) ==
    /\ calls < MaxCalls
    /\ IF doc_id \notin DOMAIN documents
       THEN /\ lastOp' = [op |-> "deleteDocument", arg |-> doc_id, ret |-> FALSE]
            /\ UNCHANGED <<engineVars, query_cache>>
       ELSE /\ index' = removeDocument(index, doc_id)
            /\ documents' = MapRemove(documents, doc_id)
            /\ query_cache' = QueryCacheClear(query_cache)
            /\ lastOp' = [op |-> "deleteDocument", arg |-> doc_id, ret |-> TRUE]
            /\ UNCHANGED next_doc_id
    /\ calls' = calls + 1
    /\ UNCHANGED <<hit_count, miss_count, eviction_count, file, snap, mutex_, thread>>
    /\ UNCHANGED <<fuzzy_search_, libVars>>

RECURSIVE IndexAll(_, _, _, _)
IndexAll(docs, idx, next, batch) ==
    IF batch = <<>> THEN [documents |-> docs, index |-> idx, next_doc_id |-> next]
    ELSE LET r == indexDocumentInternal(docs, idx, next, Head(batch))
         IN  IndexAll(r.documents, r.index, r.next_doc_id, Tail(batch))

BatchDocs == {Document(id, <<w>>) : id \in 0..MaxId, w \in Terms}
Batches == {<<a, b>> : a \in BatchDocs, b \in BatchDocs}

\* SearchEngine::indexDocuments
IndexDocuments(batch) ==
    /\ calls < MaxCalls
    /\ LET r == IndexAll(documents, index, next_doc_id, batch)
       IN  /\ r.next_doc_id <= MaxId + 1
           /\ documents' = r.documents
           /\ index' = r.index
           /\ next_doc_id' = r.next_doc_id
    /\ query_cache' = QueryCacheClear(query_cache)
    /\ lastOp' = [op |-> "indexDocuments", arg |-> batch, ret |-> TRUE]
    /\ calls' = calls + 1
    /\ UNCHANGED <<hit_count, miss_count, eviction_count, file, snap, mutex_, thread>>
    /\ fuzzy_search_' = FuzzyAddAll(fuzzy_search_, batch)
    /\ UNCHANGED libVars

\* ------------------------------------------------------------------ rankers
\* Scores are fixed-point: natural logarithms in thousandths.
LnTable == <<0, 693, 1099, 1386, 1609, 1792, 1946, 2079, 2197, 2303,
             2398, 2485, 2565, 2639, 2708, 2773, 2833, 2890, 2944, 2996,
             3045, 3091, 3135, 3178, 3219, 3258, 3296, 3332, 3367, 3401,
             3434, 3466, 3497, 3526, 3555, 3584, 3611, 3638, 3664, 3689>>
Ln(n) == LnTable[n]
\* ln(2^64), the magnitude an unsigned subtraction below zero wraps to
LnWrap == 44361
\* stands for the IEEE infinity of log(N / 0)
Infinity == 100000000

RECURSIVE CountWord(_, _)
CountWord(text, w) ==
    IF text = <<>> THEN 0
    ELSE (IF Head(text) = w THEN 1 ELSE 0) + CountWord(Tail(text), w)

\* length in characters of the text: three-letter words joined by blanks
TextLength(text) == IF text = <<>> THEN 0 ELSE 4 * Len(text) - 1

RECURSIVE SumTermCount(_, _)
SumTermCount(docs, ids) ==
    IF ids = {} THEN 0
    ELSE LET d == CHOOSE x \in ids : TRUE
         IN  docs[d].term_count + SumTermCount(docs, ids \ {d})

\* IndexStats as search() prepares it; avg_doc_length is total_length / total_docs
IndexStats(docs, idx) ==
    [total_docs |-> Cardinality(DOMAIN docs),
     total_length |-> SumTermCount(docs, DOMAIN docs),
     index |-> idx]

Capped(x) == IF x > Infinity THEN Infinity ELSE x

\* TfIdfRanker::score, in millionths
RECURSIVE TfIdfScore(_, _, _)
TfIdfScore(terms, doc, stats) ==
    IF stats.total_docs = 0 \/ terms = <<>> THEN 0
    ELSE LET t == Head(terms)
             tf == CountWord(getAllText(doc), t)
             df == getDocumentFrequency(stats.index, t)
             idf == IF df = 0 THEN Infinity ELSE Ln(stats.total_docs) - Ln(df)
             part == IF tf = 0 THEN 0
                     ELSE IF df = 0 THEN Infinity ELSE Ln(1 + tf) * idf
         IN  Capped(part + TfIdfScore(Tail(terms), doc, stats))

\* Bm25Ranker::score with k1 = 3/2 and b = 3/4, in thousandths:
\*   idf = ln((N - df + 1/2) / (df + 1/2) + 1) = ln((2N + 2) / (2df + 1))
\*   tf (k1 + 1) / (tf + k1 (1 - b + b L N / T)) = 20 tf T / (8 tf T + 3 T + 9 L N)
RECURSIVE Bm25Score(_, _, _)
Bm25Score(terms, doc, stats) ==
    IF stats.total_docs = 0 \/ stats.total_length = 0 \/ terms = <<>> THEN 0
    ELSE LET t == Head(terms)
             tf == CountWord(getAllText(doc), t)
             df == getDocumentFrequency(stats.index, t)
             N == stats.total_docs
             T == stats.total_length
             L == IF doc.term_count > 0 THEN doc.term_count
                  ELSE TextLength(getAllText(doc))
             idf == IF df <= N THEN Ln(2 * N + 2) - Ln(2 * df + 1)
                    ELSE LnWrap + Ln(2) - Ln(2 * df + 1)
             part == IF tf = 0 THEN 0
                     ELSE (idf * 20 * tf * T) \div (8 * tf * T + 3 * T + 9 * L * N)
         IN  part + Bm25Score(Tail(terms), doc, stats)

\* RankerRegistry: the built-in rankers, default "BM25"; getRanker falls back to
\* the default for a name that is not registered
DefaultRanker == "BM25"
RankerNames == {"BM25", "TF-IDF"}
getRanker(name) == IF name \in RankerNames THEN name ELSE DefaultRanker

\* the ranker search() selects
SelectRanker(options) ==
    IF options.ranker_name # "" THEN getRanker(options.ranker_name)
    ELSE IF options.algorithm = "TF_IDF" THEN getRanker("TF-IDF")
    ELSE getRanker(DefaultRanker)

Score(ranker, terms, doc, stats) ==
    IF ranker = "TF-IDF" THEN TfIdfScore(terms, doc, stats)
    ELSE Bm25Score(terms, doc, stats)

\* ------------------------------------------------------------------- search
DEFAULT_MAX_RESULTS == 10

\* SearchOptions; explain_scores, generate_snippets and fuzzy_enabled stay at
\* their defaults (false)
SearchOptions(ranker_name, algorithm, max_results, use_top_k_heap, use_cache) ==
    [ranker_name |-> ranker_name, algorithm |-> algorithm,
     max_results |-> max_results, use_top_k_heap |-> use_top_k_heap,
     use_cache |-> use_cache]

OptionSet ==
    {SearchOptions(r, "BM25", k, h, c) :
        r \in {"", "TF-IDF"}, k \in {1, DEFAULT_MAX_RESULTS},
        h \in BOOLEAN, c \in BOOLEAN}

\* the default ranker and selection method, with and without the cache
CacheOptionSet ==
    {SearchOptions("", "BM25", DEFAULT_MAX_RESULTS, TRUE, c) : c \in BOOLEAN}

Queries == {<<w>> : w \in Terms} \cup {<<>>}

\* hashSearchOptions: every hashed field that varies here; use_cache is not hashed
hashSearchOptions(options) ==
    <<options.ranker_name, options.algorithm, options.max_results,
      options.use_top_k_heap>>

\* the cache key of search(); a query is already a list of lower-case words
\* separated by single blanks, which normalizeQuery leaves as it is
QueryCacheKey(query, options) ==
    [normalized_query |-> query, options_hash |-> hashSearchOptions(options)]

\* candidates taken from the first posting of each list only
FirstPostingOnly(idx, terms) ==
    {PostingsOf(idx, terms[i])[1].doc_id :
        i \in {j \in DOMAIN terms : PostingsOf(idx, terms[j]) # <<>>}}

RECURSIVE CandidateDocIds(_, _)
CandidateDocIds(idx, terms) ==
    IF terms = <<>> THEN {}
    ELSE {p.doc_id : p \in Range(PostingsOf(idx, Head(terms)))}
         \cup CandidateDocIds(idx, Tail(terms))

\* every order in which a set can be iterated
RECURSIVE Orders(_)
Orders(S) ==
    IF S = {} THEN {<<>>}
    ELSE UNION {{<<x>> \o o : o \in Orders(S \ {x})} : x \in S}

\* ScoredDocument::operator>
Greater(a, b) ==
    IF a.score # b.score THEN a.score > b.score ELSE a.doc_id < b.doc_id

\* priority_queue<T, vector<T>, greater<T>>::top
HeapTop(heap) == CHOOSE m \in heap : \A x \in heap : x = m \/ Greater(x, m)

\* a push that never replaces an item of a full heap
HeapKeepsFirst(heap, capacity, item) ==
    IF Cardinality(heap) < capacity THEN heap \cup {item} ELSE heap

\* BoundedPriorityQueue::push
HeapPush(heap, capacity, item) ==
    IF capacity = 0 THEN heap
    ELSE IF Cardinality(heap) < capacity THEN heap \cup {item}
    ELSE IF Greater(item, HeapTop(heap)) THEN (heap \ {HeapTop(heap)}) \cup {item}
    ELSE heap

\* BoundedPriorityQueue::minScore
minScore(heap) == IF heap = {} THEN 0 ELSE HeapTop(heap).score

\* BoundedPriorityQueue::getSorted
RECURSIVE getSorted(_)
getSorted(heap) ==
    IF heap = {} THEN <<>>
    ELSE getSorted(heap \ {HeapTop(heap)}) \o <<HeapTop(heap)>>

\* the scoring loop of the Top-K branch over one iteration order of the candidates
RECURSIVE TopKLoop(_, _, _, _, _, _, _)
TopKLoop(order, heap, capacity, docs, stats, terms, ranker) ==
    IF order = <<>> THEN heap
    ELSE LET doc_id == Head(order)
             score == IF doc_id \in DOMAIN docs
                      THEN Score(ranker, terms, docs[doc_id], stats) ELSE 0
             isFull == Cardinality(heap) >= capacity
             next == IF doc_id \in DOMAIN docs /\ score > 0
                        /\ (~isFull \/ score > minScore(heap))
                     THEN HeapPush(heap, capacity, [doc_id |-> doc_id, score |-> score])
                     ELSE heap
         IN  TopKLoop(Tail(order), next, capacity, docs, stats, terms, ranker)

RECURSIVE BuildResults(_, _)
BuildResults(sorted_docs, docs) ==
    IF sorted_docs = <<>> THEN <<>>
    ELSE LET sd == Head(sorted_docs)
         IN  (IF sd.doc_id \in DOMAIN docs
              THEN <<[document |-> docs[sd.doc_id], score |-> sd.score]>>
              ELSE <<>>) \o BuildResults(Tail(sorted_docs), docs)

NonIncreasing(results) ==
    \A i \in 1..(Len(results) - 1) : results[i].score >= results[i + 1].score

Truncate(results, k) == IF Len(results) > k THEN SubSeq(results, 1, k) ELSE results

\* the traditional branch: score, std::sort by score (ties in any order), resize
FullSortResults(docs, stats, candidates, terms, ranker, max_results) ==
    LET scored == {[doc_id |-> d, score |-> Score(ranker, terms, docs[d], stats)] :
                      d \in candidates \cap DOMAIN docs}
        positive == {sd \in scored : sd.score > 0}
    IN  {Truncate(BuildResults(o, docs), max_results) :
            o \in {p \in Orders(positive) : NonIncreasing(p)}}

\* the Top-K branch, over every iteration order of the candidate set
TopKResults(docs, stats, candidates, terms, ranker, max_results) ==
    {BuildResults(getSorted(TopKLoop(o, {}, max_results, docs, stats, terms, ranker)), docs) :
        o \in Orders(candidates)}

\* ranking and selection, from the statistics and the candidates search() has
\* collected: the set of result lists it can return
SelectResults(docs, stats, candidates, query_terms, options) ==
    LET ranker == SelectRanker(options)
    IN  IF options.use_top_k_heap
        THEN TopKResults(docs, stats, candidates, query_terms, ranker, options.max_results)
        ELSE FullSortResults(docs, stats, candidates, query_terms, ranker,
                             options.max_results)

\* what search() computes when it does not answer from the cache.  The query is
\* a list of lower-case words, which extractTerms returns as they are.
ComputeResults(docs, idx, query, options) ==
    LET query_terms == query
    IN  IF query_terms = <<>> THEN {<<>>}
        ELSE SelectResults(docs, IndexStats(docs, idx),
                           CandidateDocIds(idx, query_terms), query_terms, options)

\* SearchEngine::search
Search(query, options) ==
    /\ calls < MaxCalls
    /\ LET key == QueryCacheKey(query, options)
           lookup == options.use_cache /\ query # <<>>
           present == lookup /\ key \in DOMAIN query_cache
       IN  \E expired \in BOOLEAN :
             IF present /\ ~expired
             THEN \* QueryCache::get hits
                  /\ hit_count' = hit_count + 1
                  /\ lastOp' = [op |-> "search", arg |-> <<query, options>>,
                                ret |-> query_cache[key], hit |-> TRUE]
                  /\ UNCHANGED <<query_cache, miss_count, eviction_count>>
             ELSE /\ present \/ ~expired
                  /\ \E results \in ComputeResults(documents, index, query, options) :
                       /\ lastOp' = [op |-> "search", arg |-> <<query, options>>,
                                     ret |-> results, hit |-> FALSE]
                       /\ query_cache' =
                              IF lookup THEN MapPut(query_cache, key, results)
                              ELSE query_cache
                  /\ miss_count' = IF lookup THEN miss_count + 1 ELSE miss_count
                  /\ eviction_count' = IF present THEN eviction_count + 1
                                       ELSE eviction_count
                  /\ UNCHANGED hit_count
    /\ calls' = calls + 1
    /\ UNCHANGED <<engineVars, file, snap, mutex_, thread>>
    /\ UNCHANGED <<fuzzy_search_, libVars>>

\* -------------------------------------------------------------- persistence
\* The snapshot file is a sequence of items, one per value written: the four
\* header fields, next_doc_id, then per document doc_id, term_count,
\* fields_size, key_len, key, val_len and the words of the value, then
\* num_index_terms and per term term_len, term, postings_count and per posting
\* doc_id, term_frequency, pos_count and the positions.  The hash maps are
\* written in ascending key order.
CONTENT_KEY == 0
CONTENT_KEY_LEN == 7
TERM_LEN == 3

RECURSIVE Ascending(_)
Ascending(S) ==
    IF S = {} THEN <<>>
    ELSE LET m == CHOOSE x \in S : \A y \in S : x <= y
         IN  <<m>> \o Ascending(S \ {m})

RECURSIVE Concat(_)
Concat(ss) == IF ss = <<>> THEN <<>> ELSE Head(ss) \o Concat(Tail(ss))

WriteDocument(doc_id, doc) ==
    <<doc_id, doc.term_count, 1, CONTENT_KEY_LEN, CONTENT_KEY, Len(doc.text)>> \o doc.text

WritePosting(p) ==
    <<p.doc_id, p.term_frequency, Len(p.positions)>> \o p.positions

WriteTerm(term, postings) ==
    <<TERM_LEN, term, Len(postings)>>
    \o Concat([i \in 1..Len(postings) |-> WritePosting(postings[i])])

\* Persistence::save
Serialize(docs, idx, next) ==
    LET ids == Ascending(DOMAIN docs)
        terms == Ascending(DOMAIN idx)
    IN  <<SNAPSHOT_MAGIC, SNAPSHOT_VERSION, Cardinality(DOMAIN docs), getTermCount(idx)>>
        \o <<next>>
        \o Concat([i \in 1..Len(ids) |-> WriteDocument(ids[i], docs[ids[i]])])
        \o <<Cardinality(DOMAIN idx)>>
        \o Concat([i \in 1..Len(terms) |-> WriteTerm(terms[i], idx[terms[i]])])

\* istream::read of one item: once a read fails the stream stays failed, and the
\* destination keeps the value it had (dflt)
Get(f, c, dflt) ==
    IF c.ok /\ c.pos <= Len(f)
    THEN [v |-> f[c.pos], c |-> [pos |-> c.pos + 1, ok |-> TRUE]]
    ELSE [v |-> dflt, c |-> [pos |-> c.pos, ok |-> FALSE]]

\* read n items into a zero-filled buffer of n items
RECURSIVE ReadBuffer(_, _, _)
ReadBuffer(f, c, n) ==
    IF n = 0 THEN [v |-> <<>>, c |-> c]
    ELSE LET r == Get(f, c, 0)
             rest == ReadBuffer(f, r.c, n - 1)
         IN  [v |-> <<r.v>> \o rest.v, c |-> rest.c]

\* the words of a value; the NUL bytes a failed read leaves are no words
RECURSIVE ReadWords(_, _, _)
ReadWords(f, c, n) ==
    IF n = 0 THEN [v |-> <<>>, c |-> c]
    ELSE LET r == Get(f, c, 0)
             rest == ReadWords(f, r.c, n - 1)
         IN  [v |-> (IF r.c.ok THEN <<r.v>> ELSE <<>>) \o rest.v, c |-> rest.c]

\* the fields loop of load: the text of the document is the value of its field
RECURSIVE ReadFields(_, _, _, _, _)
ReadFields(f, c, n, text, g) ==
    IF n = 0 THEN [v |-> text, c |-> c]
    ELSE LET key_len == Get(f, c, g.cnt)
             key == Get(f, key_len.c, CONTENT_KEY)
             val_len == Get(f, key.c, g.cnt)
             value == ReadWords(f, val_len.c, val_len.v)
         IN  ReadFields(f, value.c, n - 1, value.v, g)

\* the documents loop of load
RECURSIVE ReadDocuments(_, _, _, _, _)
ReadDocuments(f, c, n, docs, g) ==
    IF n = 0 THEN [v |-> docs, c |-> c]
    ELSE LET doc_id == Get(f, c, g.id)
             term_count == Get(f, doc_id.c, g.cnt)
             fields_size == Get(f, term_count.c, g.cnt)
             fields == ReadFields(f, fields_size.c, fields_size.v, <<>>, g)
             doc == [Document(doc_id.v, fields.v) EXCEPT !.term_count = term_count.v]
         IN  ReadDocuments(f, fields.c, n - 1, MapPut(docs, doc_id.v, doc), g)

RECURSIVE AddPositions(_, _, _, _)
AddPositions(idx, term, doc_id, positions) ==
    IF positions = <<>> THEN idx
    ELSE AddPositions(addTerm(idx, term, doc_id, Head(positions)),
                      term, doc_id, Tail(positions))

\* the postings loop of load
RECURSIVE ReadPostings(_, _, _, _, _, _)
ReadPostings(f, c, n, term, idx, g) ==
    IF n = 0 THEN [v |-> idx, c |-> c]
    ELSE LET doc_id == Get(f, c, g.id)
             term_frequency == Get(f, doc_id.c, g.cnt)
             pos_count == Get(f, term_frequency.c, g.cnt)
             positions == ReadBuffer(f, pos_count.c, pos_count.v)
         IN  ReadPostings(f, positions.c, n - 1, term,
                          AddPositions(idx, term, doc_id.v, positions.v), g)

\* the terms loop of load
RECURSIVE ReadTerms(_, _, _, _, _)
ReadTerms(f, c, n, idx, g) ==
    IF n = 0 THEN [v |-> idx, c |-> c]
    ELSE LET term_len == Get(f, c, g.cnt)
             term == Get(f, term_len.c, GarbageTerm)
             postings_count == Get(f, term.c, g.cnt)
             postings == ReadPostings(f, postings_count.c, postings_count.v, term.v, idx, g)
         IN  ReadTerms(f, postings.c, n - 1, postings.v, g)

\* what an uninitialized local can hold when the read into it fails
GarbageValues == [cnt : 0..MaxGarbage, id : 0..MaxGarbage]

\* Persistence::load on an existing file f; g gives the values of the locals
\* that are read before they are written
Load(f, docs, idx, next, g) ==
    LET start == [pos |-> 1, ok |-> TRUE]
        magic == Get(f, start, SNAPSHOT_MAGIC)
        version == Get(f, magic.c, SNAPSHOT_VERSION)
        num_documents == Get(f, version.c, g.cnt)
        num_terms == Get(f, num_documents.c, g.cnt)
    IN  IF magic.v # SNAPSHOT_MAGIC \/ version.v # SNAPSHOT_VERSION
        THEN [ret |-> FALSE, cleared |-> FALSE,
              documents |-> docs, index |-> idx, next_doc_id |-> next]
        ELSE LET next_id == Get(f, num_terms.c, next)
                 loaded == ReadDocuments(f, next_id.c, num_documents.v, EmptyMap, g)
                 num_index_terms == Get(f, loaded.c, g.cnt)
                 terms == ReadTerms(f, num_index_terms.c, num_index_terms.v, EmptyMap, g)
             IN  [ret |-> terms.c.ok, cleared |-> TRUE,
                  documents |-> loaded.v, index |-> terms.v, next_doc_id |-> next_id.v]

NoFile == [exists |-> FALSE, data |-> <<>>]

\* SearchEngine::saveSnapshot
SaveSnapshot ==
    /\ calls < MaxCalls
    /\ file' = [exists |-> TRUE, data |-> Serialize(documents, index, next_doc_id)]
    /\ snap' = [documents |-> documents, index |-> index, next_doc_id |-> next_doc_id]
    /\ lastOp' = [op |-> "saveSnapshot", arg |-> <<>>, ret |-> TRUE]
    /\ calls' = calls + 1
    /\ UNCHANGED <<engineVars, cacheVars, mutex_, thread>>
    /\ UNCHANGED <<fuzzy_search_, libVars>>

\* SearchEngine::loadSnapshot
LoadSnapshot ==
    /\ calls < MaxCalls
    /\ IF ~file.exists
       THEN /\ lastOp' = [op |-> "loadSnapshot", arg |-> file, ret |-> FALSE,
                          cleared |-> FALSE]
            /\ UNCHANGED <<engineVars, query_cache>>
       ELSE \E g \in GarbageValues :
              LET r == Load(file.data, documents, index, next_doc_id, g)
              IN  /\ documents' = r.documents
                  /\ index' = r.index
                  /\ next_doc_id' = r.next_doc_id
                  /\ query_cache' = IF r.ret THEN QueryCacheClear(query_cache)
                                    ELSE query_cache
                  /\ lastOp' = [op |-> "loadSnapshot", arg |-> file, ret |-> r.ret,
                                cleared |-> r.cleared]
    /\ calls' = calls + 1
    /\ UNCHANGED <<hit_count, miss_count, eviction_count, file, snap, mutex_, thread>>
    /\ UNCHANGED <<fuzzy_search_, libVars>>

BAD_MAGIC == 1145128274
BAD_VERSION == 2

\* files that did not come from saveSnapshot: an empty file, files shorter than
\* the header, a file of another format, a file of another version, and a
\* header that announces one document and one term with the body missing
ForeignFiles ==
    {<<>>, <<SNAPSHOT_MAGIC>>, <<SNAPSHOT_MAGIC, SNAPSHOT_VERSION>>, <<BAD_MAGIC>>,
     <<BAD_MAGIC, SNAPSHOT_VERSION, 0, 0, 1, 0>>,
     <<SNAPSHOT_MAGIC, BAD_VERSION, 0, 0, 1, 0>>,
     <<SNAPSHOT_MAGIC, SNAPSHOT_VERSION, 1, 1>>}

\* the environment: another program writes the file
PlaceFile(data) ==
    /\ calls < MaxCalls
    /\ ~file.exists
    /\ file' = [exists |-> TRUE, data |-> data]
    /\ UNCHANGED <<engineVars, cacheVars, snap, lastOp, calls, mutex_, thread>>
    /\ UNCHANGED <<fuzzy_search_, libVars>>

\* the environment: the file saveSnapshot wrote is cut short
TruncateFile(n) ==
    /\ calls < MaxCalls
    /\ file.exists
    /\ file.data = Serialize(snap.documents, snap.index, snap.next_doc_id)
    /\ n < Len(file.data)
    /\ file' = [file EXCEPT !.data = SubSeq(file.data, 1, n)]
    /\ UNCHANGED <<engineVars, cacheVars, snap, lastOp, calls, mutex_, thread>>
    /\ UNCHANGED <<fuzzy_search_, libVars>>

\* ------------------------------------------------------------ query cache
MaxEntries == 2
MaxTtl == 1
Getters == {"g1", "g2"}

\* QueryCache::QueryCache(max_entries, ttl), with idle callers and the clock at 0;
\* last_used and completed_gets are history
NewQueryCache(max_entries, ttl) ==
    [entries_ |-> EmptyMap, lru_order_ |-> <<>>, max_entries_ |-> max_entries,
     ttl_ |-> ttl, hit_count_ |-> 0, miss_count_ |-> 0, eviction_count_ |-> 0,
     now |-> 0, gets |-> [t \in Getters |-> Idle],
     last_used |-> EmptyMap, completed_gets |-> 0]

\* RankerRegistry::RankerRegistry: the three built-in rankers, each scoring with
\* its own formula, and "BM25" as the default
BuiltInRankers == {"TF-IDF", "BM25", "ML-Ranker"}
NewRankerRegistry ==
    [rankers_ |-> BuiltInRankers, default_ranker_ |-> "BM25",
     scoring |-> [name \in BuiltInRankers |-> name]]

\* ------------------------------------------------------------ specification
\* the cache, the file and the library objects as their constructors leave them
ConstructedRest ==
    /\ query_cache = EmptyMap
    /\ hit_count = 0
    /\ miss_count = 0
    /\ eviction_count = 0
    /\ file = NoFile
    /\ snap = [documents |-> EmptyMap, index |-> EmptyMap, next_doc_id |-> 1]
    /\ calls = 0
    /\ mutex_ = Unlocked
    /\ thread = [t \in Threads |-> Idle]
    /\ fuzzy_search_ = [index_built_ |-> FALSE, vocabulary_ |-> {}]
    /\ skips = EmptyMap
    /\ added = {}
    /\ top_k = [capacity_ |-> 0, heap_ |-> {}, pushed |-> {}]
    /\ cache = NewQueryCache(MaxEntries, MaxTtl)
    /\ ngrams = [ngram_index_ |-> EmptyMap, vocabulary_ |-> {}, index_built_ |-> FALSE]
    /\ access = {}
    /\ ranker_registry_ = NewRankerRegistry

Constructed ==
    /\ documents = EmptyMap
    /\ index = EmptyMap
    /\ next_doc_id = 1
    /\ ConstructedRest

Init ==
    /\ Constructed
    /\ lastOp = [op |-> "none", arg |-> <<>>, ret |-> FALSE]

\* every way of writing to the engine
Writes ==
    \/ \E id \in 0..MaxId, text \in Texts : IndexDocument(Document(id, text))
    \/ \E batch \in Batches : IndexDocuments(batch)
    \/ \E id \in 1..MaxId, text \in Texts : UpdateDocument(id, Document(0, text))
    \/ \E id \in 1..MaxId : DeleteDocument(id)

Next ==
    \/ Writes
    \/ \E query \in Queries, options \in CacheOptionSet : Search(query, options)
    \/ SaveSnapshot
    \/ LoadSnapshot
    \/ \E data \in ForeignFiles : PlaceFile(data)
    \/ \E n \in 0..Len(file.data) : TruncateFile(n)

Spec == Init /\ [][Next]_vars

\* the write operations alone
NextWrites == Writes

SpecWrites == Init /\ [][NextWrites]_vars

\* indexing, updating, deleting and searching with every option
NextSearch ==
    \/ \E id \in 0..MaxId, text \in Texts : IndexDocument(Document(id, text))
    \/ \E id \in 1..MaxId, text \in Texts : UpdateDocument(id, Document(0, text))
    \/ \E id \in 1..MaxId : DeleteDocument(id)
    \/ \E query \in Queries, options \in OptionSet : Search(query, options)

SpecSearch == Init /\ [][NextSearch]_vars

\* ----------------------------------------------------------- fuzzy search
\* InvertedIndex::getVocabulary
getVocabulary(idx) == DOMAIN idx

\* FuzzySearch::buildNgramIndex
buildNgramIndex(vocabulary) == [index_built_ |-> TRUE, vocabulary_ |-> vocabulary]

FuzzyOptionSet == {SearchOptions("", "BM25", DEFAULT_MAX_RESULTS, h, FALSE) : h \in BOOLEAN}

\* SearchEngine::search with options.fuzzy_enabled and without options.use_cache.
\* No word of the model is a prefix of another or within two edits of another,
\* so the expansion leaves every query term as it is.
SearchFuzzy(query, options) ==
    /\ calls < MaxCalls
    /\ ~options.use_cache
    /\ fuzzy_search_' = IF query # <<>> /\ ~fuzzy_search_.index_built_
                        THEN buildNgramIndex(getVocabulary(index))
                        ELSE fuzzy_search_
    /\ \E results \in ComputeResults(documents, index, query, options) :
         lastOp' = [op |-> "search", arg |-> <<query, options>>, ret |-> results,
                    hit |-> FALSE, fuzzy |-> TRUE]
    /\ calls' = calls + 1
    /\ UNCHANGED <<engineVars, cacheVars, file, snap, mutex_, thread, libVars>>

\* indexing, fuzzy searches and snapshots
NextFuzzy ==
    \/ \E id \in 0..MaxId, text \in Texts : IndexDocument(Document(id, text))
    \/ \E query \in Queries, options \in FuzzyOptionSet : SearchFuzzy(query, options)
    \/ SaveSnapshot
    \/ LoadSnapshot

SpecFuzzy == Init /\ [][NextFuzzy]_vars

\* ------------------------------------------------ posting lists with skips
\* the InvertedIndex used on its own: terms, doc ids and positions of the calls
NumIndexTerms == 2
MaxIndexDoc == 3
MaxIndexCalls == 5
MaxPosition == 1
IndexTerms == 1..NumIndexTerms
IndexDocIds == 1..MaxIndexDoc

\* the skip state of PostingList(): no pointers, skips_dirty_ = true
NewSkips == [skip_pointers |-> <<>>, skips_dirty_ |-> TRUE]

SkipsOf(sk, term) == IF term \in DOMAIN sk THEN sk[term] ELSE NewSkips

PostingList(postings, s) ==
    [postings |-> postings, skip_pointers |-> s.skip_pointers,
     skips_dirty_ |-> s.skips_dirty_]

\* a list whose skip state is left as it was
SkipsLeftAsTheyAre(s) == s

\* PostingList::markSkipsDirty
markSkipsDirty(s) == [s EXCEPT !.skips_dirty_ = TRUE]

SkipPointer(pos, id) == [position |-> pos, doc_id |-> id]

\* static_cast<size_t>(std::sqrt(n))
Sqrt(n) == CHOOSE r \in 0..n : r * r <= n /\ (r + 1) * (r + 1) > n

\* the loop of buildSkipPointers; positions count from 0 as in the code
RECURSIVE SkipLoop(_, _, _)
SkipLoop(postings, i, skip_interval) ==
    IF i >= Len(postings) THEN <<>>
    ELSE <<SkipPointer(i, postings[i + 1].doc_id)>>
         \o SkipLoop(postings, i + skip_interval, skip_interval)

\* PostingList::buildSkipPointers
buildSkipPointers(postings, skip_interval) ==
    IF postings = <<>> THEN [skip_pointers |-> <<>>, skips_dirty_ |-> FALSE]
    ELSE LET root == Sqrt(Len(postings))
             interval == IF skip_interval # 0 THEN skip_interval
                         ELSE IF root > 1 THEN root ELSE 1
         IN  [skip_pointers |-> SkipLoop(postings, 0, interval), skips_dirty_ |-> FALSE]

\* InvertedIndex::getPostingList: a copy, with skip pointers built on the copy
getPostingList(idx, sk, term) ==
    IF term \in DOMAIN idx
    THEN LET s == SkipsOf(sk, term)
         IN  IF s.skips_dirty_ /\ idx[term] # <<>>
             THEN PostingList(idx[term], buildSkipPointers(idx[term], 0))
             ELSE PostingList(idx[term], s)
    ELSE PostingList(<<>>, NewSkips)

\* InvertedIndex::addTerm with the skip state of the list
AddTerm(term, doc_id, position) ==
    /\ calls < MaxIndexCalls
    /\ index' = addTerm(index, term, doc_id, position)
    /\ skips' = MapPut(skips, term, markSkipsDirty(SkipsOf(skips, term)))
    /\ added' = added \cup {<<term, doc_id>>}
    /\ lastOp' = [op |-> "addTerm", arg |-> <<term, doc_id, position>>, ret |-> TRUE]
    /\ calls' = calls + 1
    /\ UNCHANGED <<documents, next_doc_id, cacheVars, file, snap, mutex_, thread,
                   fuzzy_search_, top_k, moreLib>>

\* InvertedIndex::removeDocument with the skip state of the lists
RemoveDocument(doc_id) ==
    /\ calls < MaxIndexCalls
    /\ index' = removeDocument(index, doc_id)
    /\ skips' = [t \in DOMAIN index' |-> markSkipsDirty(SkipsOf(skips, t))]
    /\ added' = {p \in added : p[2] # doc_id}
    /\ lastOp' = [op |-> "removeDocument", arg |-> doc_id, ret |-> TRUE]
    /\ calls' = calls + 1
    /\ UNCHANGED <<documents, next_doc_id, cacheVars, file, snap, mutex_, thread,
                   fuzzy_search_, top_k, moreLib>>

\* InvertedIndex::rebuildSkipPointers()
RebuildSkipPointers ==
    /\ calls < MaxIndexCalls
    /\ skips' = [t \in DOMAIN index |->
                    IF index[t] # <<>> THEN buildSkipPointers(index[t], 0)
                    ELSE SkipsOf(skips, t)]
    /\ lastOp' = [op |-> "rebuildSkipPointers", arg |-> <<>>, ret |-> TRUE]
    /\ calls' = calls + 1
    /\ UNCHANGED <<engineVars, cacheVars, file, snap, mutex_, thread,
                   fuzzy_search_, added, top_k, moreLib>>

\* InvertedIndex::rebuildSkipPointers(term)
RebuildSkipPointersOf(term) ==
    /\ calls < MaxIndexCalls
    /\ skips' = IF term \in DOMAIN index /\ index[term] # <<>>
                THEN MapPut(skips, term, buildSkipPointers(index[term], 0))
                ELSE skips
    /\ lastOp' = [op |-> "rebuildSkipPointers", arg |-> <<term>>, ret |-> TRUE]
    /\ calls' = calls + 1
    /\ UNCHANGED <<engineVars, cacheVars, file, snap, mutex_, thread,
                   fuzzy_search_, added, top_k, moreLib>>

\* a call of InvertedIndex::getPostingList
GetPostingList(term) ==
    /\ calls < MaxIndexCalls
    /\ lastOp' = [op |-> "getPostingList", arg |-> term,
                  ret |-> getPostingList(index, skips, term)]
    /\ calls' = calls + 1
    /\ UNCHANGED <<engineVars, cacheVars, file, snap, mutex_, thread,
                   fuzzy_search_, skips, added, top_k, moreLib>>

NextIndex ==
    \/ \E term \in IndexTerms, doc_id \in IndexDocIds, position \in 0..MaxPosition :
          AddTerm(term, doc_id, position)
    \/ \E doc_id \in IndexDocIds : RemoveDocument(doc_id)
    \/ RebuildSkipPointers
    \/ \E term \in IndexTerms : RebuildSkipPointersOf(term)
    \/ \E term \in IndexTerms : GetPostingList(term)

SpecIndex == Init /\ [][NextIndex]_vars

\* ------------------------------------------------- intersection with skips
MaxListDoc == 5
MaxInterval == 3

\* std::lower_bound over the skip pointers with sp.doc_id < target: the index
\* (from 1) of the first pointer that is not before the target, Len + 1 if none
RECURSIVE LowerBound(_, _, _)
LowerBound(skip_pointers, target, k) ==
    IF k > Len(skip_pointers) THEN k
    ELSE IF skip_pointers[k].doc_id < target
         THEN LowerBound(skip_pointers, target, k + 1)
         ELSE k

\* a skip to the first pointer at or after the target
findSkipTargetAtOrAfter(list, target_doc_id) ==
    IF list.skip_pointers = <<>> THEN 0
    ELSE LET it == LowerBound(list.skip_pointers, target_doc_id, 1)
         IN  IF it > Len(list.skip_pointers)
             THEN list.skip_pointers[Len(list.skip_pointers)].position
             ELSE list.skip_pointers[it].position

\* PostingList::findSkipTarget
findSkipTarget(list, target_doc_id) ==
    IF list.skip_pointers = <<>> THEN 0
    ELSE LET it == LowerBound(list.skip_pointers, target_doc_id, 1)
         IN  IF it = 1 THEN 0
             ELSE list.skip_pointers[it - 1].position

\* the loop of intersectWithSkips; i and j count from 0 as in the code
RECURSIVE IntersectLoop(_, _, _, _, _)
IntersectLoop(list1, list2, i, j, result) ==
    IF ~(i < Len(list1.postings) /\ j < Len(list2.postings)) THEN result
    ELSE LET doc_id1 == list1.postings[i + 1].doc_id
             doc_id2 == list2.postings[j + 1].doc_id
         IN  IF doc_id1 = doc_id2
             THEN IntersectLoop(list1, list2, i + 1, j + 1, Append(result, doc_id1))
             ELSE IF doc_id1 < doc_id2
             THEN IF list1.skip_pointers # <<>>
                  THEN LET skip_pos == findSkipTarget(list1, doc_id2)
                       IN  IntersectLoop(list1, list2,
                                         IF i + 1 > skip_pos THEN i + 1 ELSE skip_pos,
                                         j, result)
                  ELSE IntersectLoop(list1, list2, i + 1, j, result)
             ELSE IF list2.skip_pointers # <<>>
                  THEN LET skip_pos == findSkipTarget(list2, doc_id1)
                       IN  IntersectLoop(list1, list2, i,
                                         IF j + 1 > skip_pos THEN j + 1 ELSE skip_pos,
                                         result)
                  ELSE IntersectLoop(list1, list2, i, j + 1, result)

\* intersectWithSkips
intersectWithSkips(list1, list2) == IntersectLoop(list1, list2, 0, 0, <<>>)

\* the posting list addPosting builds from doc_ids pushed in ascending order
RECURSIVE PostingsOfIds(_)
PostingsOfIds(ids) ==
    IF ids = <<>> THEN <<>>
    ELSE <<Posting(Head(ids), 1)>> \o PostingsOfIds(Tail(ids))

\* posting lists with strictly ascending doc_ids, without skip pointers or with
\* skip pointers built at an interval (0: the square root of the size)
SkipLists ==
    LET lists == {PostingsOfIds(Ascending(S)) : S \in SUBSET (1..MaxListDoc)}
    IN  {PostingList(postings, NewSkips) : postings \in lists}
        \cup {PostingList(postings, buildSkipPointers(postings, skip_interval)) :
                 postings \in lists, skip_interval \in 0..MaxInterval}

\* the two lists intersectWithSkips is called with
InitIntersect ==
    /\ Constructed
    /\ \E list1 \in SkipLists, list2 \in SkipLists :
          lastOp = [op |-> "input", arg |-> <<list1, list2>>, ret |-> <<>>]

\* a call of intersectWithSkips
IntersectWithSkips ==
    /\ lastOp.op = "input"
    /\ lastOp' = [op |-> "intersectWithSkips", arg |-> lastOp.arg,
                  ret |-> intersectWithSkips(lastOp.arg[1], lastOp.arg[2])]
    /\ UNCHANGED <<engineVars, cacheVars, file, snap, calls, mutex_, thread,
                   fuzzy_search_, libVars>>

NextIntersect == IntersectWithSkips

SpecIntersect == InitIntersect /\ [][NextIntersect]_vars

\* --------------------------------------------------- bounded priority queue
MaxCapacity == 3
MaxHeapDoc == 4
MaxScore == 2

ScoredDocuments == [doc_id : 1..MaxHeapDoc, score : 0..MaxScore]

\* BoundedPriorityQueue::BoundedPriorityQueue(k)
TopKCreate(k) ==
    /\ top_k' = [capacity_ |-> k, heap_ |-> {}, pushed |-> {}]
    /\ lastOp' = [op |-> "BoundedPriorityQueue", arg |-> k, ret |-> TRUE]
    /\ UNCHANGED <<engineVars, cacheVars, file, snap, calls, mutex_, thread,
                   fuzzy_search_, skips, added, moreLib>>

\* BoundedPriorityQueue::push of a document that was not pushed before
TopKPush(item) ==
    /\ item.doc_id \notin {p.doc_id : p \in top_k.pushed}
    /\ top_k' = [top_k EXCEPT !.heap_ = HeapPush(top_k.heap_, top_k.capacity_, item),
                              !.pushed = @ \cup {item}]
    /\ lastOp' = [op |-> "push", arg |-> item, ret |-> TRUE]
    /\ UNCHANGED <<engineVars, cacheVars, file, snap, calls, mutex_, thread,
                   fuzzy_search_, skips, added, moreLib>>

\* BoundedPriorityQueue::getSorted
TopKGetSorted ==
    /\ top_k' = [top_k EXCEPT !.heap_ = {}, !.pushed = {}]
    /\ lastOp' = [op |-> "getSorted", arg |-> top_k.pushed, ret |-> getSorted(top_k.heap_)]
    /\ UNCHANGED <<engineVars, cacheVars, file, snap, calls, mutex_, thread,
                   fuzzy_search_, skips, added, moreLib>>

NextTopK ==
    \/ \E k \in 0..MaxCapacity : TopKCreate(k)
    \/ \E item \in ScoredDocuments : TopKPush(item)
    \/ TopKGetSorted

SpecTopK == Init /\ [][NextTopK]_vars

\* ------------------------------------------------- selection of the results
BatchSize == 3
MaxSelect == 2

\* batches of BatchSize documents without ids
SelectBatches == [1..BatchSize -> {Document(0, text) : text \in Texts}]

\* heap and sort selection with small limits, the limit 0 included, cache off
SelectOptionSet ==
    {SearchOptions(r, "BM25", k, h, FALSE) :
        r \in {"", "TF-IDF"}, k \in 0..MaxSelect, h \in BOOLEAN}

\* a new engine after one indexDocuments call
InitSelect ==
    /\ \E batch \in SelectBatches :
          LET r == IndexAll(EmptyMap, EmptyMap, 1, batch)
          IN  /\ documents = r.documents
              /\ index = r.index
              /\ next_doc_id = r.next_doc_id
              /\ lastOp = [op |-> "indexDocuments", arg |-> batch, ret |-> TRUE]
    /\ ConstructedRest

NextSelect == \E query \in Queries, options \in SelectOptionSet : Search(query, options)

SpecSelect == InitSelect /\ [][NextSelect]_vars

\* cached searches of that engine, and snapshots another program left for it to load
NextReload ==
    \/ \E query \in Queries, options \in CacheOptionSet : Search(query, options)
    \/ \E data \in ForeignFiles : PlaceFile(data)
    \/ LoadSnapshot

SpecReload == InitSelect /\ [][NextReload]_vars

\* ------------------------------------------------------- ranker registry
CustomRankers == {"custom", "other"}

\* the registries registerCustomRanker and setDefaultRanker can produce
RankerRegistries ==
    {[rankers_ |-> BuiltInRankers \cup custom, default_ranker_ |-> d] :
        custom \in SUBSET CustomRankers, d \in BuiltInRankers \cup CustomRankers}

\* RankerRegistry::getRanker on a registry; "nullptr" when nothing is found
getRankerIn(registry, name) ==
    IF name \in registry.rankers_ THEN name
    ELSE IF registry.default_ranker_ \in registry.rankers_ THEN registry.default_ranker_
    ELSE "nullptr"

\* the ranker selection of search()
rankerToUse(registry, options) ==
    LET selected == IF options.ranker_name # "" THEN getRankerIn(registry, options.ranker_name)
                    ELSE IF options.algorithm = "TF_IDF" THEN getRankerIn(registry, "TF-IDF")
                    ELSE getRankerIn(registry, registry.default_ranker_)
    IN  IF selected = "nullptr" THEN getRankerIn(registry, "BM25") ELSE selected

RankerOptionSet ==
    {SearchOptions(r, a, DEFAULT_MAX_RESULTS, TRUE, TRUE) :
        r \in BuiltInRankers \cup CustomRankers \cup {"", "unknown"},
        a \in {"TF_IDF", "BM25"}}

\* a registry whose default is registered, and the options of a search
InitRanker ==
    /\ Constructed
    /\ \E registry \in RankerRegistries, options \in RankerOptionSet :
          /\ registry.default_ranker_ \in registry.rankers_
          /\ lastOp = [op |-> "input", arg |-> <<registry, options>>, ret |-> ""]

\* the ranker selection step of a search
SelectRankerStep ==
    /\ lastOp.op = "input"
    /\ lastOp' = [op |-> "selectRanker", arg |-> lastOp.arg,
                  ret |-> rankerToUse(lastOp.arg[1], lastOp.arg[2])]
    /\ UNCHANGED <<engineVars, cacheVars, file, snap, calls, mutex_, thread,
                   fuzzy_search_, libVars>>

NextRanker == SelectRankerStep

SpecRanker == InitRanker /\ [][NextRanker]_vars

\* ------------------------------------------------- query cache on its own
NumKeys == 3
MaxValue == 2
MaxNow == 2
MaxCacheCalls == 4
CacheKeys == 1..NumKeys
CacheValues == 1..MaxValue

\* an expiry test that never finds an entry expired
neverExpired(c, entry, now) == FALSE

\* QueryCache::isExpired
isExpired(c, entry, now) ==
    IF c.ttl_ <= 0 THEN FALSE ELSE now - entry.timestamp > c.ttl_

\* std::list::erase of the node of a key
ListErase(order, key) == SelectSeq(order, LAMBDA k : k # key)

\* a touch that leaves the LRU list as it is
touchNothing(c, key) == c

\* QueryCache::touch
touch(c, key) == [c EXCEPT !.lru_order_ = <<key>> \o ListErase(c.lru_order_, key)]

\* QueryCache::eraseEntry
eraseEntry(c, key, count_eviction) ==
    [c EXCEPT !.lru_order_ = ListErase(c.lru_order_, key),
              !.entries_ = MapRemove(c.entries_, key),
              !.eviction_count_ = IF count_eviction THEN @ + 1 ELSE @]

\* an eviction that removes nothing
evictNothing(c) == c

\* QueryCache::evictIfNeeded
RECURSIVE evictIfNeeded(_)
evictIfNeeded(c) ==
    IF Cardinality(DOMAIN c.entries_) > c.max_entries_ /\ c.lru_order_ # <<>>
    THEN LET key == c.lru_order_[Len(c.lru_order_)]
         IN  IF key \in DOMAIN c.entries_
             THEN evictIfNeeded(eraseEntry(c, key, TRUE))
             ELSE evictIfNeeded([c EXCEPT !.lru_order_ =
                                     SubSeq(c.lru_order_, 1, Len(c.lru_order_) - 1)])
    ELSE c

\* a miss that is not counted
missUncounted(c) == c

\* miss_count_.fetch_add(1)
countMiss(c) == [c EXCEPT !.miss_count_ = @ + 1]

\* QueryCache::put
put(c, key, results, now) ==
    IF key \in DOMAIN c.entries_
    THEN touch([c EXCEPT !.entries_[key] = [results |-> results, timestamp |-> now]], key)
    ELSE evictIfNeeded([c EXCEPT
             !.lru_order_ = <<key>> \o @,
             !.entries_ = MapPut(@, key, [results |-> results, timestamp |-> now])])

\* QueryCache::getStats; hit_rate in thousandths
getStats(c) ==
    LET total == c.hit_count_ + c.miss_count_
    IN  [hit_count |-> c.hit_count_, miss_count |-> c.miss_count_,
         eviction_count |-> c.eviction_count_,
         current_size |-> Cardinality(DOMAIN c.entries_), max_size |-> c.max_entries_,
         hit_rate |-> IF total > 0 THEN (1000 * c.hit_count_) \div total ELSE 0]

\* history: key was put or found at call number stamp; removed keys are forgotten
Used(c, key, stamp) ==
    [c EXCEPT !.last_used = [k \in DOMAIN c.entries_ |->
                                IF k = key THEN stamp ELSE c.last_used[k]]]

Forgotten(c) == [c EXCEPT !.last_used = [k \in DOMAIN c.entries_ |-> c.last_used[k]]]

CacheRest == <<engineVars, cacheVars, file, snap, mutex_, thread, fuzzy_search_,
               skips, added, top_k, ngrams, access, ranker_registry_>>

\* the clock advances
CacheTick ==
    /\ cache.now < MaxNow
    /\ cache' = [cache EXCEPT !.now = @ + 1]
    /\ UNCHANGED <<lastOp, calls, CacheRest>>

\* QueryCache::get under the shared lock: a miss for an absent key, and
\* otherwise the lock is released to take the exclusive one
CacheGetShared(t, key) ==
    /\ calls < MaxCacheCalls
    /\ cache.gets[t].pc = "idle"
    /\ IF key \notin DOMAIN cache.entries_
       THEN /\ cache' = [countMiss(cache) EXCEPT !.completed_gets = @ + 1]
            /\ lastOp' = [op |-> "get", arg |-> key, ret |-> FALSE, results |-> 0,
                          age |-> 0, thread |-> t, phase |-> "shared",
                          outcome |-> "absent"]
            /\ calls' = calls + 1
       ELSE /\ cache' = [cache EXCEPT !.gets[t] =
                            [pc |-> "upgrade", key |-> key, now |-> cache.now]]
            /\ UNCHANGED <<lastOp, calls>>
    /\ UNCHANGED CacheRest

\* QueryCache::get under the exclusive lock
CacheGetUnique(t) ==
    /\ cache.gets[t].pc = "upgrade"
    /\ LET key == cache.gets[t].key
           now == cache.gets[t].now
           c == [cache EXCEPT !.gets[t] = Idle, !.completed_gets = @ + 1]
       IN  IF key \notin DOMAIN c.entries_
           THEN /\ cache' = countMiss(c)
                /\ lastOp' = [op |-> "get", arg |-> key, ret |-> FALSE, results |-> 0,
                              age |-> 0, thread |-> t, phase |-> "unique",
                              outcome |-> "absent"]
           ELSE IF isExpired(c, c.entries_[key], now)
           THEN /\ cache' = Forgotten(countMiss(eraseEntry(c, key, TRUE)))
                /\ lastOp' = [op |-> "get", arg |-> key, ret |-> FALSE, results |-> 0,
                              age |-> now - c.entries_[key].timestamp, thread |-> t,
                              phase |-> "unique", outcome |-> "expired"]
           ELSE /\ cache' = Used([touch(c, key) EXCEPT !.hit_count_ = @ + 1],
                                 key, calls + 1)
                /\ lastOp' = [op |-> "get", arg |-> key, ret |-> TRUE,
                              results |-> c.entries_[key].results,
                              age |-> now - c.entries_[key].timestamp, thread |-> t,
                              phase |-> "unique", outcome |-> "hit"]
    /\ calls' = calls + 1
    /\ UNCHANGED CacheRest

\* QueryCache::put
CachePut(key, results) ==
    /\ calls < MaxCacheCalls
    /\ cache' = Used(put(cache, key, results, cache.now), key, calls + 1)
    /\ lastOp' = [op |-> "put", arg |-> key, ret |-> TRUE, results |-> results]
    /\ calls' = calls + 1
    /\ UNCHANGED CacheRest

\* QueryCache::clear
CacheClear ==
    /\ calls < MaxCacheCalls
    /\ cache' = Forgotten([cache EXCEPT !.entries_ = EmptyMap, !.lru_order_ = <<>>])
    /\ lastOp' = [op |-> "clear", arg |-> <<>>, ret |-> TRUE]
    /\ calls' = calls + 1
    /\ UNCHANGED CacheRest

\* QueryCache::setMaxEntries
CacheSetMaxEntries(max_entries) ==
    /\ calls < MaxCacheCalls
    /\ cache' = Forgotten(evictIfNeeded([cache EXCEPT !.max_entries_ = max_entries]))
    /\ lastOp' = [op |-> "setMaxEntries", arg |-> max_entries, ret |-> TRUE]
    /\ calls' = calls + 1
    /\ UNCHANGED CacheRest

\* QueryCache::setTtl
CacheSetTtl(ttl) ==
    /\ calls < MaxCacheCalls
    /\ cache' = [cache EXCEPT !.ttl_ = ttl]
    /\ lastOp' = [op |-> "setTtl", arg |-> ttl, ret |-> TRUE]
    /\ calls' = calls + 1
    /\ UNCHANGED CacheRest

NextCache ==
    \/ CacheTick
    \/ \E t \in Getters, key \in CacheKeys : CacheGetShared(t, key)
    \/ \E t \in Getters : CacheGetUnique(t)
    \/ \E key \in CacheKeys, results \in CacheValues : CachePut(key, results)
    \/ CacheClear
    \/ \E max_entries \in 0..MaxEntries : CacheSetMaxEntries(max_entries)
    \/ \E ttl \in 0..MaxTtl : CacheSetTtl(ttl)

SpecCache == Init /\ [][NextCache]_vars

\* ------------------------------------------------------------ concurrency
\* a unique lock that does not wait for the other owners
UniqueIgnoringOwners(m) == TRUE

\* std::unique_lock lock(mutex_) can be taken
CanLockUnique(m) == m.unique = "none" /\ m.shared = {}

\* a shared lock that does not wait for the unique owner
SharedIgnoringUnique(m) == TRUE

\* std::shared_lock lock(mutex_) can be taken
CanLockShared(m) == m.unique = "none"

\* the documents and index as the last completed write left them
Committed ==
    IF mutex_.unique = "none"
    THEN [documents |-> documents, index |-> index]
    ELSE thread[mutex_.unique].pre

Quiescent == mutex_ = Unlocked /\ \A t \in Threads : thread[t].pc = "idle"

\* a thread calls updateDocument and blocks on the lock
UpdateCall(t, doc_id, doc) ==
    /\ calls < MaxCalls
    /\ thread[t].pc = "idle"
    /\ thread' = [thread EXCEPT ![t] = [pc |-> "waiting", doc_id |-> doc_id, doc |-> doc]]
    /\ calls' = calls + 1
    /\ UNCHANGED <<engineVars, cacheVars, file, snap, lastOp, mutex_>>
    /\ UNCHANGED <<fuzzy_search_, libVars>>

\* updateDocument: the unique lock is acquired
UpdateLock(t) ==
    /\ thread[t].pc = "waiting"
    /\ CanLockUnique(mutex_)
    /\ mutex_' = [mutex_ EXCEPT !.unique = t]
    /\ thread' = [thread EXCEPT ![t] =
                    [pc |-> "locked", doc_id |-> thread[t].doc_id, doc |-> thread[t].doc,
                     pre |-> [documents |-> documents, index |-> index]]]
    /\ UNCHANGED <<engineVars, cacheVars, file, snap, lastOp, calls>>
    /\ UNCHANGED <<fuzzy_search_, libVars>>

\* updateDocument: the existence check and index_->removeDocument
UpdateRemove(t) ==
    /\ thread[t].pc = "locked"
    /\ IF thread[t].doc_id \notin DOMAIN documents
       THEN /\ mutex_' = [mutex_ EXCEPT !.unique = "none"]
            /\ thread' = [thread EXCEPT ![t] = Idle]
            /\ lastOp' = [op |-> "updateDocument",
                          arg |-> <<thread[t].doc_id, thread[t].doc>>, ret |-> FALSE]
            /\ UNCHANGED index
       ELSE /\ index' = removeDocument(index, thread[t].doc_id)
            /\ thread' = [thread EXCEPT ![t].pc = "removed"]
            /\ UNCHANGED <<mutex_, lastOp>>
    /\ UNCHANGED <<documents, next_doc_id, cacheVars, file, snap, calls>>
    /\ UNCHANGED <<fuzzy_search_, libVars>>

\* a search in progress has seen one more committed state
Observe(rec, state) ==
    IF rec.pc \in {"idle", "returned"} THEN rec
    ELSE [rec EXCEPT !.seen = rec.seen \cup {state}]

\* updateDocument: indexDocumentInternal, query_cache_.clear(), return and unlock
UpdateReindex(t) ==
    /\ thread[t].pc = "removed"
    /\ LET r == indexDocumentInternal(documents, index, next_doc_id,
                                      [thread[t].doc EXCEPT !.id = thread[t].doc_id])
           post == [documents |-> r.documents, index |-> r.index]
       IN  /\ documents' = r.documents
           /\ index' = r.index
           /\ next_doc_id' = r.next_doc_id
           /\ thread' = [x \in Threads |->
                           IF x = t THEN Idle
                           ELSE IF x \in Readers THEN Observe(thread[x], post)
                           ELSE thread[x]]
    /\ query_cache' = QueryCacheClear(query_cache)
    /\ mutex_' = [mutex_ EXCEPT !.unique = "none"]
    /\ lastOp' = [op |-> "updateDocument",
                  arg |-> <<thread[t].doc_id, thread[t].doc>>, ret |-> TRUE]
    /\ UNCHANGED <<hit_count, miss_count, eviction_count, file, snap, calls>>
    /\ fuzzy_search_' = FuzzyAddTerms(fuzzy_search_, thread[t].doc)
    /\ UNCHANGED libVars

\* a thread calls search and blocks on the lock
SearchCall(t, query, options) ==
    /\ calls < MaxCalls
    /\ thread[t].pc \in {"idle", "returned"}
    /\ thread' = [thread EXCEPT ![t] =
                    [pc |-> "waiting", query |-> query, options |-> options,
                     seen |-> {Committed},
                     overlapped |-> \E u \in Updaters : thread[u].pc = "removed"]]
    /\ calls' = calls + 1
    /\ UNCHANGED <<engineVars, cacheVars, file, snap, lastOp, mutex_>>
    /\ UNCHANGED <<fuzzy_search_, libVars>>

\* search: the shared lock is acquired
SearchLock(t) ==
    /\ thread[t].pc = "waiting"
    /\ CanLockShared(mutex_)
    /\ mutex_' = [mutex_ EXCEPT !.shared = @ \cup {t}]
    /\ thread' = [thread EXCEPT ![t].pc = "locked"]
    /\ UNCHANGED <<engineVars, cacheVars, file, snap, lastOp, calls>>
    /\ UNCHANGED <<fuzzy_search_, libVars>>

\* the thread's record once search has returned results
Returned(rec, results, hit) ==
    [pc |-> "returned", query |-> rec.query, options |-> rec.options,
     seen |-> rec.seen, overlapped |-> rec.overlapped, ret |-> results, hit |-> hit]

\* search: the cache lookup, then the statistics of the collection
SearchStats(t) ==
    /\ thread[t].pc = "locked"
    /\ LET query == thread[t].query
           options == thread[t].options
           key == QueryCacheKey(query, options)
           lookup == options.use_cache /\ query # <<>>
           present == lookup /\ key \in DOMAIN query_cache
       IN  \E expired \in BOOLEAN :
             IF present /\ ~expired
             THEN /\ hit_count' = hit_count + 1
                  /\ thread' = [thread EXCEPT ![t] =
                                  Returned(thread[t], query_cache[key], TRUE)]
                  /\ mutex_' = [mutex_ EXCEPT !.shared = @ \ {t}]
                  /\ lastOp' = [op |-> "search", arg |-> <<query, options>>,
                                ret |-> query_cache[key], hit |-> TRUE]
                  /\ UNCHANGED <<query_cache, miss_count, eviction_count>>
             ELSE /\ present \/ ~expired
                  /\ miss_count' = IF lookup THEN miss_count + 1 ELSE miss_count
                  /\ eviction_count' = IF present THEN eviction_count + 1
                                       ELSE eviction_count
                  /\ query_cache' = IF present THEN MapRemove(query_cache, key)
                                    ELSE query_cache
                  /\ IF query = <<>>
                     THEN /\ thread' = [thread EXCEPT ![t] =
                                          Returned(thread[t], <<>>, FALSE)]
                          /\ mutex_' = [mutex_ EXCEPT !.shared = @ \ {t}]
                          /\ lastOp' = [op |-> "search", arg |-> <<query, options>>,
                                        ret |-> <<>>, hit |-> FALSE]
                     ELSE /\ thread' = [thread EXCEPT ![t] =
                                          [pc |-> "stats", query |-> query,
                                           options |-> options, seen |-> thread[t].seen,
                                           overlapped |-> thread[t].overlapped,
                                           stats |-> IndexStats(documents, index)]]
                          /\ UNCHANGED <<mutex_, lastOp>>
                  /\ UNCHANGED hit_count
    /\ UNCHANGED <<engineVars, file, snap, calls>>
    /\ UNCHANGED <<fuzzy_search_, libVars>>

\* search: the candidate documents are collected from the posting lists
SearchCandidates(t) ==
    /\ thread[t].pc = "stats"
    /\ thread' = [thread EXCEPT ![t] =
                    [pc |-> "candidates", query |-> thread[t].query,
                     options |-> thread[t].options, seen |-> thread[t].seen,
                     overlapped |-> thread[t].overlapped, stats |-> thread[t].stats,
                     candidates |-> CandidateDocIds(index, thread[t].query)]]
    /\ UNCHANGED <<engineVars, cacheVars, file, snap, lastOp, calls, mutex_>>
    /\ UNCHANGED <<fuzzy_search_, libVars>>

\* search: scoring and selection, query_cache_.put, return and unlock
SearchScore(t) ==
    /\ thread[t].pc = "candidates"
    /\ LET query == thread[t].query
           options == thread[t].options
       IN  \E results \in SelectResults(documents, thread[t].stats,
                                        thread[t].candidates, query, options) :
             /\ query_cache' = IF options.use_cache
                               THEN MapPut(query_cache, QueryCacheKey(query, options),
                                           results)
                               ELSE query_cache
             /\ thread' = [thread EXCEPT ![t] = Returned(thread[t], results, FALSE)]
             /\ lastOp' = [op |-> "search", arg |-> <<query, options>>,
                           ret |-> results, hit |-> FALSE]
    /\ mutex_' = [mutex_ EXCEPT !.shared = @ \ {t}]
    /\ UNCHANGED <<engineVars, hit_count, miss_count, eviction_count, file, snap, calls>>
    /\ UNCHANGED <<fuzzy_search_, libVars>>

\* documents are indexed while no other call is running; then updates and
\* searches run on their threads
NextConcurrent ==
    \/ \E batch \in Batches : Quiescent /\ IndexDocuments(batch)
    \/ \E t \in Updaters, id \in 1..MaxId, text \in Texts :
          UpdateCall(t, id, Document(0, text))
    \/ \E t \in Updaters : UpdateLock(t) \/ UpdateRemove(t) \/ UpdateReindex(t)
    \/ \E t \in Readers, query \in Queries, options \in CacheOptionSet :
          SearchCall(t, query, options)
    \/ \E t \in Readers :
          SearchLock(t) \/ SearchStats(t) \/ SearchCandidates(t) \/ SearchScore(t)

SpecConcurrent == Init /\ [][NextConcurrent]_vars

\* ------------------------------------------- configuration and the lock
MaxLockCalls == 3

\* SearchEngine's tokenizer and ranker configuration calls and the member each writes
ConfigObject ==
    [setTokenizer |-> "tokenizer_", setStemmer |-> "tokenizer_",
     setRemoveStopwords |-> "tokenizer_", enableSIMD |-> "tokenizer_",
     registerCustomRanker |-> "ranker_registry_", setDefaultRanker |-> "ranker_registry_"]

ConfigOps == DOMAIN ConfigObject

\* a thread is reading or writing a member of the engine
Access(t, object, kind) == [thread |-> t, object |-> object, kind |-> kind]

AccessesOf(t) == {a \in access : a.thread = t}

\* two threads use the same member at once and one of them writes it
Conflict(object) ==
    \E a \in access, b \in access :
        /\ a.thread # b.thread
        /\ a.object = object /\ b.object = object
        /\ a.kind = "write"

LockRest == <<file, snap, skips, added, top_k, cache, ngrams, ranker_registry_>>

\* a thread calls an operation of the engine
LockCall(t, op, arg) ==
    /\ calls < MaxLockCalls
    /\ thread[t].pc = "idle"
    /\ thread' = [thread EXCEPT ![t] = [pc |-> "waiting", op |-> op, arg |-> arg]]
    /\ calls' = calls + 1
    /\ UNCHANGED <<engineVars, cacheVars, lastOp, mutex_, fuzzy_search_, access, LockRest>>

\* indexDocument: the unique lock is acquired and the tokenizer starts on the text
IndexBegin(t) ==
    /\ thread[t].pc = "waiting" /\ thread[t].op = "indexDocument"
    /\ CanLockUnique(mutex_)
    /\ mutex_' = [mutex_ EXCEPT !.unique = t]
    /\ thread' = [thread EXCEPT ![t].pc = "tokenizing"]
    /\ access' = access \cup {Access(t, "tokenizer_", "read")}
    /\ UNCHANGED <<engineVars, cacheVars, lastOp, calls, fuzzy_search_, LockRest>>

\* indexDocument: the terms are added to the index and to the built n-gram
\* index, the cache is cleared and the lock is released
IndexEnd(t) ==
    /\ thread[t].pc = "tokenizing"
    /\ LET r == indexDocumentInternal(documents, index, next_doc_id, thread[t].arg)
       IN  /\ documents' = r.documents
           /\ index' = r.index
           /\ next_doc_id' = r.next_doc_id
           /\ lastOp' = [op |-> "indexDocument", arg |-> thread[t].arg, ret |-> r.doc_id]
    /\ fuzzy_search_' = FuzzyAddTerms(fuzzy_search_, thread[t].arg)
    /\ query_cache' = QueryCacheClear(query_cache)
    /\ mutex_' = [mutex_ EXCEPT !.unique = "none"]
    /\ thread' = [thread EXCEPT ![t] = Idle]
    /\ access' = access \ AccessesOf(t)
    /\ UNCHANGED <<hit_count, miss_count, eviction_count, calls, LockRest>>

\* search: the shared lock is acquired
FuzzySearchLock(t) ==
    /\ thread[t].pc = "waiting" /\ thread[t].op = "search"
    /\ CanLockShared(mutex_)
    /\ mutex_' = [mutex_ EXCEPT !.shared = @ \cup {t}]
    /\ thread' = [thread EXCEPT ![t].pc = "locked"]
    /\ UNCHANGED <<engineVars, cacheVars, lastOp, calls, fuzzy_search_, access, LockRest>>

\* search of a query with terms: with options.fuzzy_enabled the n-gram index is
\* built unless isIndexBuilt(), then findMatches reads it
FuzzyCheckBuilt(t) ==
    /\ thread[t].pc = "locked"
    /\ IF thread[t].arg.fuzzy_enabled
       THEN IF ~fuzzy_search_.index_built_
            THEN /\ thread' = [thread EXCEPT ![t].pc = "building"]
                 /\ access' = access \cup {Access(t, "fuzzy_search_", "write")}
            ELSE /\ thread' = [thread EXCEPT ![t].pc = "matching"]
                 /\ access' = access \cup {Access(t, "fuzzy_search_", "read")}
       ELSE /\ thread' = [thread EXCEPT ![t].pc = "ranking"]
            /\ access' = access \cup {Access(t, "ranker_registry_", "read")}
    /\ UNCHANGED <<engineVars, cacheVars, lastOp, calls, mutex_, fuzzy_search_, LockRest>>

\* search: fuzzy_search_.buildNgramIndex(vocabulary) returns.  Two builds
\* that ran at once leave the unsynchronised containers in any state.
FuzzyBuild(t) ==
    /\ thread[t].pc = "building"
    /\ IF Conflict("fuzzy_search_")
       THEN \E built \in BOOLEAN, vocabulary \in SUBSET getVocabulary(index) :
               fuzzy_search_' = [index_built_ |-> built, vocabulary_ |-> vocabulary]
       ELSE fuzzy_search_' = buildNgramIndex(getVocabulary(index))
    /\ thread' = [thread EXCEPT ![t].pc = "matching"]
    /\ access' = (access \ AccessesOf(t)) \cup {Access(t, "fuzzy_search_", "read")}
    /\ UNCHANGED <<engineVars, cacheVars, lastOp, calls, mutex_, LockRest>>

\* search: findMatches has returned and the ranker is looked up in the registry
FuzzyMatch(t) ==
    /\ thread[t].pc = "matching"
    /\ thread' = [thread EXCEPT ![t].pc = "ranking"]
    /\ access' = (access \ AccessesOf(t)) \cup {Access(t, "ranker_registry_", "read")}
    /\ UNCHANGED <<engineVars, cacheVars, lastOp, calls, mutex_, fuzzy_search_, LockRest>>

\* search: the results are returned and the shared lock is released
FuzzySearchEnd(t) ==
    /\ thread[t].pc = "ranking"
    /\ mutex_' = [mutex_ EXCEPT !.shared = @ \ {t}]
    /\ thread' = [thread EXCEPT ![t] = Idle]
    /\ access' = access \ AccessesOf(t)
    /\ lastOp' = [op |-> "search", arg |-> thread[t].arg, ret |-> <<>>]
    /\ UNCHANGED <<engineVars, cacheVars, calls, fuzzy_search_, LockRest>>

\* a configuration call starts writing its member; it takes no lock
ConfigBegin(t) ==
    /\ thread[t].pc = "waiting" /\ thread[t].op \in ConfigOps
    /\ thread' = [thread EXCEPT ![t].pc = "configuring"]
    /\ access' = access \cup {Access(t, ConfigObject[thread[t].op], "write")}
    /\ UNCHANGED <<engineVars, cacheVars, lastOp, calls, mutex_, fuzzy_search_, LockRest>>

\* the configuration call returns
ConfigEnd(t) ==
    /\ thread[t].pc = "configuring"
    /\ thread' = [thread EXCEPT ![t] = Idle]
    /\ access' = access \ AccessesOf(t)
    /\ lastOp' = [op |-> thread[t].op, arg |-> thread[t].arg, ret |-> <<>>]
    /\ UNCHANGED <<engineVars, cacheVars, calls, mutex_, fuzzy_search_, LockRest>>

\* indexing, plain and fuzzy searches and configuration calls on three threads
NextLocks ==
    \/ \E t \in Threads, text \in Texts : LockCall(t, "indexDocument", Document(0, text))
    \/ \E t \in Threads, fuzzy \in BOOLEAN :
          LockCall(t, "search", [fuzzy_enabled |-> fuzzy])
    \/ \E t \in Threads, op \in ConfigOps : LockCall(t, op, <<>>)
    \/ \E t \in Threads : IndexBegin(t) \/ IndexEnd(t)
    \/ \E t \in Threads :
          FuzzySearchLock(t) \/ FuzzyCheckBuilt(t) \/ FuzzyBuild(t) \/ FuzzyMatch(t)
             \/ FuzzySearchEnd(t)
    \/ \E t \in Threads : ConfigBegin(t) \/ ConfigEnd(t)

SpecLocks == Init /\ [][NextLocks]_vars

\* ------------------------------------------------- the n-gram index alone
MaxTermLen == 2
MaxNgramCalls == 3
NGRAM_SIZE == 2

\* terms as strings of characters, the empty string among them
FuzzyChars == {"a", "b"}
FuzzyTerms == SeqsUpTo(FuzzyChars, MaxTermLen)

\* FuzzySearch::extractNgrams: the n-grams of "^" + term + "$" in order;
\* none for the empty term
extractNgrams(term) ==
    IF term = <<>> THEN <<>>
    ELSE LET padded == <<"^">> \o term \o <<"$">>
         IN  [i \in 1..(Len(padded) - NGRAM_SIZE + 1) |->
                 SubSeq(padded, i, i + NGRAM_SIZE - 1)]

\* ngram_index_[ngram].insert(term) for every n-gram of the list
RECURSIVE InsertNgrams(_, _, _)
InsertNgrams(ngram_index, grams, term) ==
    IF grams = <<>> THEN ngram_index
    ELSE LET g == Head(grams)
             old == IF g \in DOMAIN ngram_index THEN ngram_index[g] ELSE {}
         IN  InsertNgrams(MapPut(ngram_index, g, old \cup {term}), Tail(grams), term)

\* the loop of removeTerm: erase the term from each n-gram's set and erase
\* the sets that became empty
RECURSIVE EraseNgrams(_, _, _)
EraseNgrams(ngram_index, grams, term) ==
    IF grams = <<>> THEN ngram_index
    ELSE LET g == Head(grams)
             next == IF g \notin DOMAIN ngram_index THEN ngram_index
                     ELSE IF ngram_index[g] \ {term} = {} THEN MapRemove(ngram_index, g)
                     ELSE MapPut(ngram_index, g, ngram_index[g] \ {term})
         IN  EraseNgrams(next, Tail(grams), term)

\* FuzzySearch::clear
ngramClear(f) == [ngram_index_ |-> EmptyMap, vocabulary_ |-> {}, index_built_ |-> FALSE]

\* FuzzySearch::addTerm
ngramAddTerm(f, term) ==
    IF term \in f.vocabulary_ THEN f
    ELSE [ngram_index_ |-> InsertNgrams(f.ngram_index_, extractNgrams(term), term),
          vocabulary_ |-> f.vocabulary_ \cup {term},
          index_built_ |-> TRUE]

\* FuzzySearch::removeTerm
ngramRemoveTerm(f, term) ==
    IF term \notin f.vocabulary_ THEN f
    ELSE [f EXCEPT !.ngram_index_ = EraseNgrams(@, extractNgrams(term), term),
                   !.vocabulary_ = @ \ {term}]

RECURSIVE InsertTerms(_, _)
InsertTerms(ngram_index, terms) ==
    IF terms = {} THEN ngram_index
    ELSE LET term == CHOOSE x \in terms : TRUE
         IN  InsertTerms(InsertNgrams(ngram_index, extractNgrams(term), term),
                         terms \ {term})

\* FuzzySearch::buildNgramIndex on its own object
ngramBuild(f, vocabulary) ==
    [ngram_index_ |-> InsertTerms(EmptyMap, vocabulary),
     vocabulary_ |-> vocabulary,
     index_built_ |-> TRUE]

NgramRest == <<engineVars, cacheVars, file, snap, mutex_, thread, fuzzy_search_,
               skips, added, top_k, cache, access, ranker_registry_>>

\* a call of buildNgramIndex
NgramBuild(vocabulary) ==
    /\ calls < MaxNgramCalls
    /\ ngrams' = ngramBuild(ngrams, vocabulary)
    /\ lastOp' = [op |-> "buildNgramIndex", arg |-> vocabulary, ret |-> <<>>]
    /\ calls' = calls + 1
    /\ UNCHANGED NgramRest

\* a call of addTerm
NgramAddTerm(term) ==
    /\ calls < MaxNgramCalls
    /\ ngrams' = ngramAddTerm(ngrams, term)
    /\ lastOp' = [op |-> "addTerm", arg |-> term, ret |-> <<>>]
    /\ calls' = calls + 1
    /\ UNCHANGED NgramRest

\* a call of removeTerm
NgramRemoveTerm(term) ==
    /\ calls < MaxNgramCalls
    /\ ngrams' = ngramRemoveTerm(ngrams, term)
    /\ lastOp' = [op |-> "removeTerm", arg |-> term, ret |-> <<>>]
    /\ calls' = calls + 1
    /\ UNCHANGED NgramRest

\* a call of clear
NgramClear ==
    /\ calls < MaxNgramCalls
    /\ ngrams' = ngramClear(ngrams)
    /\ lastOp' = [op |-> "clear", arg |-> <<>>, ret |-> <<>>]
    /\ calls' = calls + 1
    /\ UNCHANGED NgramRest

NextNgram ==
    \/ \E vocabulary \in SUBSET FuzzyTerms : NgramBuild(vocabulary)
    \/ \E term \in FuzzyTerms : NgramAddTerm(term)
    \/ \E term \in FuzzyTerms : NgramRemoveTerm(term)
    \/ NgramClear

SpecNgram == Init /\ [][NextNgram]_vars

\* -------------------------------------------------------- edit distance
MaxStrLen == 3
MaxDistance == 2

DlChars == {"a", "b", "c"}
DlStrings == SeqsUpTo(DlChars, MaxStrLen)

Least(S) == CHOOSE x \in S : \A y \in S : x <= y

\* the inner loop of damerauLevenshteinDistance: row i of the table, cell
\* at(i, j) at index j + 1; prev is row i - 1 and prev2 row i - 2
RECURSIVE dpRow(_, _, _, _, _, _)
dpRow(s1, s2, i, prev, prev2, row) ==
    LET j == Len(row)
    IN  IF j > Len(s2) THEN row
        ELSE LET cost == IF s1[i] = s2[j] THEN 0 ELSE 1
                 deletion == prev[j + 1] + 1
                 insertion == row[j] + 1
                 substitution == prev[j] + cost
                 plain == Least({deletion, insertion, substitution})
                 cell == IF i > 1 /\ j > 1 /\ s1[i] = s2[j - 1] /\ s1[i - 1] = s2[j]
                         THEN Least({plain, prev2[j - 1] + cost})
                         ELSE plain
             IN  dpRow(s1, s2, i, prev, prev2, Append(row, cell))

\* the outer loop: rows 1..len1 with the early return when the least cell of
\* a row exceeds max_distance
RECURSIVE dpRows(_, _, _, _, _, _)
dpRows(s1, s2, max_distance, i, prev, prev2) ==
    IF i > Len(s1) THEN prev[Len(s2) + 1]
    ELSE LET row == dpRow(s1, s2, i, prev, prev2, <<i>>)
             row_min == Least({row[j + 1] : j \in 1..Len(s2)})
         IN  IF row_min > max_distance THEN max_distance + 1
             ELSE dpRows(s1, s2, max_distance, i + 1, row, prev)

\* FuzzySearch::damerauLevenshteinDistance
damerauLevenshteinDistance(s1, s2, max_distance) ==
    IF Len(s1) > Len(s2) + max_distance \/ Len(s2) > Len(s1) + max_distance
    THEN max_distance + 1
    ELSE IF Len(s1) = 0 THEN Len(s2)
    ELSE IF Len(s2) = 0 THEN Len(s1)
    ELSE IF s1 = s2 THEN 0
    ELSE dpRows(s1, s2, max_distance, 1, [j \in 1..(Len(s2) + 1) |-> j - 1], <<>>)

\* the two strings and the threshold of a call
InitDistance ==
    /\ Constructed
    /\ \E s1 \in DlStrings, s2 \in DlStrings, max_distance \in 0..MaxDistance :
          lastOp = [op |-> "input", arg |-> <<s1, s2, max_distance>>, ret |-> 0,
                    swapped |-> 0]

\* the distance is computed for the arguments and for the strings exchanged
DistanceStep ==
    /\ lastOp.op = "input"
    /\ lastOp' = [op |-> "damerauLevenshteinDistance", arg |-> lastOp.arg,
                  ret |-> damerauLevenshteinDistance(lastOp.arg[1], lastOp.arg[2],
                                                     lastOp.arg[3]),
                  swapped |-> damerauLevenshteinDistance(lastOp.arg[2], lastOp.arg[1],
                                                         lastOp.arg[3])]
    /\ UNCHANGED <<engineVars, cacheVars, file, snap, calls, mutex_, thread,
                   fuzzy_search_, libVars>>

NextDistance == DistanceStep

SpecDistance == InitDistance /\ [][NextDistance]_vars

\* ------------------------------------------------------ findSkipTarget alone
\* the list and the target of a call of findSkipTarget
InitSkipTarget ==
    /\ Constructed
    /\ \E list \in SkipLists, target_doc_id \in 0..(MaxListDoc + 1) :
          lastOp = [op |-> "input", arg |-> <<list, target_doc_id>>, ret |-> 0]

\* a call of findSkipTarget
FindSkipTarget ==
    /\ lastOp.op = "input"
    /\ lastOp' = [op |-> "findSkipTarget", arg |-> lastOp.arg,
                  ret |-> findSkipTarget(lastOp.arg[1], lastOp.arg[2])]
    /\ UNCHANGED <<engineVars, cacheVars, file, snap, calls, mutex_, thread,
                   fuzzy_search_, libVars>>

NextSkipTarget == FindSkipTarget

SpecSkipTarget == InitSkipTarget /\ [][NextSkipTarget]_vars

\* ------------------------------------------- addTerm from several threads
MaxAddCalls == 4

\* each thread adds terms for a document of its own
ThreadDocId == [u1 |-> 1, r1 |-> 2, r2 |-> 3]

\* the addTerm calls completed for the term and the document
AddedCount(term, doc_id) == Cardinality({a \in added : a[1] = term /\ a[2] = doc_id})

\* a thread calls InvertedIndex::addTerm(term, doc_id) and blocks on the
\* index's mutex_
AddTermCall(t, term) ==
    /\ calls < MaxAddCalls
    /\ thread[t].pc = "idle"
    /\ thread' = [thread EXCEPT ![t] =
                    [pc |-> "waiting", term |-> term, doc_id |-> ThreadDocId[t]]]
    /\ calls' = calls + 1
    /\ UNCHANGED <<engineVars, cacheVars, file, snap, lastOp, mutex_, fuzzy_search_,
                   libVars>>

\* addTerm: std::unique_lock lock(mutex_) is acquired
AddTermLock(t) ==
    /\ thread[t].pc = "waiting"
    /\ CanLockUnique(mutex_)
    /\ mutex_' = [mutex_ EXCEPT !.unique = t]
    /\ thread' = [thread EXCEPT ![t].pc = "locked"]
    /\ UNCHANGED <<engineVars, cacheVars, file, snap, lastOp, calls, fuzzy_search_,
                   libVars>>

\* addTerm: index_[term] is looked up and the posting of doc_id searched in
\* the list as it is now
AddTermFind(t) ==
    /\ thread[t].pc = "locked"
    /\ thread' = [thread EXCEPT ![t] =
                    [pc |-> "found", term |-> thread[t].term, doc_id |-> thread[t].doc_id,
                     postings |-> PostingsOf(index, thread[t].term)]]
    /\ UNCHANGED <<engineVars, cacheVars, file, snap, lastOp, calls, mutex_,
                   fuzzy_search_, libVars>>

\* addTerm: the posting is incremented or appended to the list that was
\* looked up, the skips are marked dirty and the lock is released
AddTermWrite(t) ==
    /\ thread[t].pc = "found"
    /\ LET term == thread[t].term
           doc_id == thread[t].doc_id
       IN  /\ index' = addTerm(MapPut(index, term, thread[t].postings), term, doc_id, 0)
           /\ skips' = MapPut(skips, term, markSkipsDirty(SkipsOf(skips, term)))
           /\ added' = added \cup {<<term, doc_id, AddedCount(term, doc_id) + 1>>}
           /\ lastOp' = [op |-> "addTerm", arg |-> <<term, doc_id, 0>>, ret |-> TRUE]
    /\ mutex_' = [mutex_ EXCEPT !.unique = "none"]
    /\ thread' = [thread EXCEPT ![t] = Idle]
    /\ UNCHANGED <<documents, next_doc_id, cacheVars, file, snap, calls, fuzzy_search_,
                   top_k, moreLib>>

NextAddThreads ==
    \/ \E t \in Threads, term \in IndexTerms : AddTermCall(t, term)
    \/ \E t \in Threads : AddTermLock(t) \/ AddTermFind(t) \/ AddTermWrite(t)

SpecAddThreads == Init /\ [][NextAddThreads]_vars

\* ----------------------------------------------------------- simple stemmer
MaxStemPrefix == 2

\* result.substr(result.length() - n) == suffix, for a token longer than least
HasSuffix(token, suffix, least) ==
    /\ Len(token) > least
    /\ SubSeq(token, Len(token) - Len(suffix) + 1, Len(token)) = suffix

\* result.substr(0, result.length() - n)
DropLast(token, n) == SubSeq(token, 1, Len(token) - n)

\* Tokenizer::simpleStem
simpleStem(token) ==
    IF Len(token) < 4 THEN token
    ELSE IF HasSuffix(token, <<"t", "i", "o", "n", "a", "l">>, 6)
         THEN DropLast(token, 6) \o <<"t", "i", "o", "n">>
    ELSE IF HasSuffix(token, <<"a", "t", "i", "o", "n", "a", "l">>, 7)
         THEN DropLast(token, 7) \o <<"a", "t", "e">>
    ELSE IF HasSuffix(token, <<"i", "o", "n", "a", "l">>, 5) THEN DropLast(token, 2)
    ELSE IF HasSuffix(token, <<"i", "n", "g">>, 3) THEN DropLast(token, 3)
    ELSE IF HasSuffix(token, <<"e", "d">>, 2) THEN DropLast(token, 2)
    ELSE IF HasSuffix(token, <<"l", "y">>, 2) THEN DropLast(token, 2)
    ELSE IF Len(token) > 1 /\ token[Len(token)] = "s" /\ token[Len(token) - 1] # "s"
         THEN DropLast(token, 1)
    ELSE token

\* tokens: a short beginning followed by one of the endings the stemmer looks at
StemEndings ==
    {<<>>, <<"a", "t", "i", "o", "n", "a", "l">>, <<"t", "i", "o", "n", "a", "l">>,
     <<"i", "o", "n", "a", "l">>, <<"i", "n", "g">>, <<"e", "d">>, <<"l", "y">>,
     <<"s">>, <<"s", "s">>, <<"e", "d", "s">>, <<"i", "n", "g", "l", "y">>}

StemTokens ==
    {b \o e : b \in SeqsUpTo({"r", "e", "l"}, MaxStemPrefix), e \in StemEndings} \ {<<>>}

InitStem ==
    /\ Constructed
    /\ \E token \in StemTokens : lastOp = [op |-> "input", arg |-> token, ret |-> <<>>]

\* a token is stemmed with the SIMPLE stemmer
SimpleStem ==
    /\ lastOp.op = "input"
    /\ lastOp' = [op |-> "simpleStem", arg |-> lastOp.arg, ret |-> simpleStem(lastOp.arg)]
    /\ UNCHANGED <<engineVars, cacheVars, file, snap, calls, mutex_, thread,
                   fuzzy_search_, libVars>>

NextStem == SimpleStem

SpecStem == InitStem /\ [][NextStem]_vars

\* ------------------------------------------------- query strings as typed
MaxQueryLen == 3

\* the characters of a query string: letters in both cases, white space, the
\* quote and a punctuation mark
QueryChars == {"f", "F", " ", "\t", "\"", ","}
QueryStrings == SeqsUpTo(QueryChars, MaxQueryLen)

\* std::isspace, std::ispunct and std::tolower on these characters
isspace(ch) == ch \in {" ", "\t"}
ispunct(ch) == ch \in {",", "\""}
LowerCase == [F |-> "f", A |-> "a", N |-> "n", D |-> "d", O |-> "o", R |-> "r", T |-> "t"]
tolower(ch) == IF ch \in DOMAIN LowerCase THEN LowerCase[ch] ELSE ch

\* the loop of normalizeQuery
RECURSIVE NormalizeLoop(_, _, _)
NormalizeLoop(query, normalized, in_space) ==
    IF query = <<>> THEN normalized
    ELSE LET ch == Head(query)
         IN  IF isspace(ch)
             THEN IF normalized # <<>> /\ ~in_space
                  THEN NormalizeLoop(Tail(query), Append(normalized, " "), TRUE)
                  ELSE NormalizeLoop(Tail(query), normalized, in_space)
             ELSE NormalizeLoop(Tail(query), Append(normalized, tolower(ch)), FALSE)

\* normalizeQuery
normalizeQuery(query) ==
    LET normalized == NormalizeLoop(query, <<>>, FALSE)
    IN  IF normalized # <<>> /\ normalized[Len(normalized)] = " "
        THEN SubSeq(normalized, 1, Len(normalized) - 1)
        ELSE normalized

BooleanWords == {<<"a", "n", "d">>, <<"o", "r">>, <<"n", "o", "t">>}

\* terms.push_back(current_term) unless the term is empty or a boolean operator
PushTerm(terms, current_term) ==
    IF current_term # <<>> /\ current_term \notin BooleanWords
    THEN Append(terms, current_term) ELSE terms

\* the loop of QueryParser::extractTerms
RECURSIVE ExtractLoop(_, _, _, _)
ExtractLoop(query_string, terms, current_term, in_quotes) ==
    IF query_string = <<>> THEN PushTerm(terms, current_term)
    ELSE LET c == Head(query_string)
             rest == Tail(query_string)
         IN  IF c = "\"" THEN ExtractLoop(rest, terms, current_term, ~in_quotes)
             ELSE IF in_quotes
                  THEN ExtractLoop(rest, terms, Append(current_term, tolower(c)), in_quotes)
             ELSE IF isspace(c) \/ ispunct(c)
                  THEN ExtractLoop(rest, PushTerm(terms, current_term), <<>>, in_quotes)
             ELSE ExtractLoop(rest, terms, Append(current_term, tolower(c)), in_quotes)

\* QueryParser::extractTerms
extractTerms(query_string) == ExtractLoop(query_string, <<>>, <<>>, FALSE)

\* two query strings
InitQueries ==
    /\ Constructed
    /\ \E q1 \in QueryStrings, q2 \in QueryStrings :
          lastOp = [op |-> "input", arg |-> <<q1, q2>>, ret |-> <<>>, key |-> <<>>]

\* search computes the cache key and the terms of each of the two queries
NormalizeAndExtract ==
    /\ lastOp.op = "input"
    /\ lastOp' = [op |-> "search", arg |-> lastOp.arg,
                  key |-> <<normalizeQuery(lastOp.arg[1]), normalizeQuery(lastOp.arg[2])>>,
                  ret |-> <<extractTerms(lastOp.arg[1]), extractTerms(lastOp.arg[2])>>]
    /\ UNCHANGED <<engineVars, cacheVars, file, snap, calls, mutex_, thread,
                   fuzzy_search_, libVars>>

NextQueries == NormalizeAndExtract

SpecQueries == InitQueries /\ [][NextQueries]_vars

\* -------------------------------------------------------------- findMatches
MaxEditDistance == 2
MaxCandidates == 2

\* FuzzySearch::autoMaxEditDistance
autoMaxEditDistance(term_length) ==
    IF term_length <= 2 THEN 0 ELSE IF term_length <= 4 THEN 1 ELSE 2

\* std::string::operator< on strings of lower-case letters
CharRank == [a |-> 1, b |-> 2, c |-> 3]

RECURSIVE StringLess(_, _)
StringLess(s, t) ==
    IF t = <<>> THEN FALSE
    ELSE IF s = <<>> THEN TRUE
    ELSE IF Head(s) # Head(t) THEN CharRank[Head(s)] < CharRank[Head(t)]
    ELSE StringLess(Tail(s), Tail(t))

\* the comparison findMatches sorts with
MatchLess(x, y) ==
    IF x.edit_distance # y.edit_distance THEN x.edit_distance < y.edit_distance
    ELSE StringLess(x.matched_term, y.matched_term)

\* std::sort of the matches; no two matches have the same term
RECURSIVE SortMatches(_)
SortMatches(matches) ==
    IF matches = {} THEN <<>>
    ELSE LET first == CHOOSE x \in matches : \A y \in matches : y = x \/ MatchLess(x, y)
         IN  <<first>> \o SortMatches(matches \ {first})

FuzzyMatchOf(term, candidate, dist) ==
    [original_term |-> term, matched_term |-> candidate, edit_distance |-> dist]

\* FuzzySearch::findMatches
findMatches(f, term, max_edit_distance, max_candidates) ==
    LET effective == IF max_edit_distance = 0 THEN autoMaxEditDistance(Len(term))
                     ELSE max_edit_distance
        query_ngrams == extractNgrams(term)
        candidate_scores ==
            [candidate \in UNION {f.ngram_index_[g] :
                                    g \in Range(query_ngrams) \cap DOMAIN f.ngram_index_} |->
                Cardinality({i \in DOMAIN query_ngrams :
                                /\ query_ngrams[i] \in DOMAIN f.ngram_index_
                                /\ candidate \in f.ngram_index_[query_ngrams[i]]})]
        max_destroyed == effective * (NGRAM_SIZE + 1)
        min_shared_ngrams == IF Len(query_ngrams) > max_destroyed + 1
                             THEN Len(query_ngrams) - max_destroyed ELSE 1
        matches == {FuzzyMatchOf(term, candidate,
                                 damerauLevenshteinDistance(term, candidate, effective)) :
                        candidate \in {x \in DOMAIN candidate_scores :
                            /\ candidate_scores[x] >= min_shared_ngrams
                            /\ damerauLevenshteinDistance(term, x, effective) <= effective}}
        sorted == SortMatches(matches)
    IN  IF term = <<>> THEN <<>>
        ELSE IF effective = 0
             THEN IF term \in f.vocabulary_ THEN <<FuzzyMatchOf(term, term, 0)>> ELSE <<>>
        ELSE IF query_ngrams = <<>> THEN <<>>
        ELSE IF Len(sorted) > max_candidates THEN SubSeq(sorted, 1, max_candidates)
        ELSE sorted

\* a FuzzySearch built from a vocabulary and the arguments of a findMatches call
InitMatches ==
    /\ Constructed
    /\ \E vocabulary \in SUBSET FuzzyTerms, term \in FuzzyTerms,
          max_edit_distance \in 0..MaxEditDistance, max_candidates \in 0..MaxCandidates :
          lastOp = [op |-> "input",
                    arg |-> <<vocabulary, term, max_edit_distance, max_candidates>>,
                    ret |-> <<>>]

\* buildNgramIndex(vocabulary), then findMatches
FindMatches ==
    /\ lastOp.op = "input"
    /\ lastOp' = [op |-> "findMatches", arg |-> lastOp.arg,
                  ret |-> findMatches(ngramBuild(ngrams, lastOp.arg[1]), lastOp.arg[2],
                                      lastOp.arg[3], lastOp.arg[4])]
    /\ UNCHANGED <<engineVars, cacheVars, file, snap, calls, mutex_, thread,
                   fuzzy_search_, libVars>>

NextMatches == FindMatches

SpecMatches == InitMatches /\ [][NextMatches]_vars

\* ------------------------------------------------------------------ fuzzy expansion of query terms
\* SearchEngine::search with options.fuzzy_enabled, from the vocabulary of the
\* index to the substitutions it attaches to the results.  fuzzy_search_ is the
\* n-gram index of an earlier vocabulary: search builds it once, the first time
\* fuzzy search runs, and the writes of the engine change the index afterwards.

MaxExpandTerms == 1
FUZZY_CANDIDATES == 5

\* vocab_term.rfind(term, 0) == 0
StartsWith(vocab_term, term) ==
    /\ Len(term) <= Len(vocab_term)
    /\ SubSeq(vocab_term, 1, Len(term)) = term

\* the values the prefix loop can leave in prefix_match: a later vocab_term
\* replaces it only when strictly shorter, so the first of the shortest ones in
\* the order of getVocabulary (the order of an unordered_map) stays
prefix_match(vocabulary, term) ==
    {v \in vocabulary :
        /\ StartsWith(v, term)
        /\ \A w \in vocabulary : StartsWith(w, term) => Len(v) <= Len(w)}

\* the substitutes one query term can get; none when the term is kept
substitutes(vocabulary, fuzzy, term, max_edit_distance) ==
    IF term \in vocabulary THEN {}
    ELSE IF prefix_match(vocabulary, term) # {} THEN prefix_match(vocabulary, term)
    ELSE LET matches == findMatches(fuzzy, term, max_edit_distance, FUZZY_CANDIDATES)
         IN  IF matches # <<>> THEN {matches[1].matched_term} ELSE {}

\* the maps fuzzy_expansions can hold after the loop over query_terms
fuzzy_expansions(vocabulary, fuzzy, query_terms, max_edit_distance) ==
    LET replaced == {t \in Range(query_terms) :
                        substitutes(vocabulary, fuzzy, t, max_edit_distance) # {}}
    IN  {m \in [replaced -> vocabulary \cup fuzzy.vocabulary_] :
            \A t \in replaced : m[t] \in substitutes(vocabulary, fuzzy, t, max_edit_distance)}

\* query_terms after the loop
expanded_terms(query_terms, expansions) ==
    [i \in DOMAIN query_terms |->
        IF query_terms[i] \in DOMAIN expansions THEN expansions[query_terms[i]]
        ELSE query_terms[i]]

VocabularyTerms == FuzzyTerms \ {<<>>}
ExpandQueries == SeqsUpTo(VocabularyTerms, MaxExpandTerms) \ {<<>>}

\* the vocabulary of the index, the vocabulary fuzzy_search_ was built from and
\* extended with, the terms of a query and options.max_edit_distance
InitExpand ==
    /\ Constructed
    /\ \E vocabulary \in SUBSET VocabularyTerms, built \in SUBSET VocabularyTerms,
          query_terms \in ExpandQueries, max_edit_distance \in 0..MaxEditDistance :
          lastOp = [op |-> "input",
                    arg |-> <<vocabulary, built, query_terms, max_edit_distance>>,
                    ret |-> <<>>]

\* search(query, {fuzzy_enabled: true, use_cache: false}): the expansion loop,
\* then result.expanded_terms = fuzzy_expansions on every result when the map is
\* not empty
SearchExpand ==
    /\ lastOp.op = "input"
    /\ \E expansions \in fuzzy_expansions(lastOp.arg[1], ngramBuild(ngrams, lastOp.arg[2]),
                                          lastOp.arg[3], lastOp.arg[4]) :
          lastOp' = [op |-> "search", arg |-> lastOp.arg,
                     ret |-> [query_terms |-> expanded_terms(lastOp.arg[3], expansions),
                              expanded_terms |-> expansions]]
    /\ UNCHANGED <<engineVars, cacheVars, file, snap, calls, mutex_, thread,
                   fuzzy_search_, libVars>>

NextExpand == SearchExpand

SpecExpand == InitExpand /\ [][NextExpand]_vars

\* ------------------------------------------------ fuzzy search amid the writes
\* every write of the engine, fuzzy searches and snapshots
NextFuzzyWrites ==
    \/ \E id \in 0..MaxId, text \in Texts : IndexDocument(Document(id, text))
    \/ \E batch \in Batches : IndexDocuments(batch)
    \/ \E id \in 1..MaxId, text \in Texts : UpdateDocument(id, Document(0, text))
    \/ \E id \in 1..MaxId : DeleteDocument(id)
    \/ \E query \in Queries, options \in FuzzyOptionSet : SearchFuzzy(query, options)
    \/ SaveSnapshot
    \/ LoadSnapshot

SpecFuzzyWrites == Init /\ [][NextFuzzyWrites]_vars

\* ------------------------------------------- cached searches and the registry
\* The rankers a caller can register: a custom ranker scores with code of its
\* own, here with one of the two formulas of the model, and may carry the name
\* of a registered ranker.
RegisteredNames == {"BM25", "custom"}
ScoringFormulas == {"BM25", "TF-IDF"}
DefaultNames == {"BM25", "TF-IDF", "custom"}

RankedOptionSet ==
    {SearchOptions(r, "BM25", DEFAULT_MAX_RESULTS, TRUE, c) :
        r \in {"", "custom"}, c \in BOOLEAN}

\* what search() computes with the ranker the registry gives it
ComputeRanked(registry, docs, idx, query, options) ==
    LET query_terms == query
        ranker == registry.scoring[rankerToUse(registry, options)]
    IN  IF query_terms = <<>> THEN {<<>>}
        ELSE IF options.use_top_k_heap
        THEN TopKResults(docs, IndexStats(docs, idx), CandidateDocIds(idx, query_terms),
                         query_terms, ranker, options.max_results)
        ELSE FullSortResults(docs, IndexStats(docs, idx), CandidateDocIds(idx, query_terms),
                             query_terms, ranker, options.max_results)

\* SearchEngine::registerCustomRanker, RankerRegistry::registerRanker
RegisterCustomRanker(name, formula) ==
    /\ calls < MaxCalls
    /\ ranker_registry_' = [ranker_registry_ EXCEPT
                               !.rankers_ = @ \cup {name},
                               !.scoring = MapPut(@, name, formula)]
    /\ lastOp' = [op |-> "registerCustomRanker", arg |-> <<name, formula>>, ret |-> TRUE]
    /\ calls' = calls + 1
    /\ UNCHANGED <<engineVars, cacheVars, file, snap, mutex_, thread, fuzzy_search_,
                   skips, added, top_k, cache, ngrams, access>>

\* SearchEngine::setDefaultRanker, RankerRegistry::setDefaultRanker
SetDefaultRanker(ranker_name) ==
    /\ calls < MaxCalls
    /\ ranker_registry_' = IF ranker_name \in ranker_registry_.rankers_
                           THEN [ranker_registry_ EXCEPT !.default_ranker_ = ranker_name]
                           ELSE ranker_registry_
    /\ lastOp' = [op |-> "setDefaultRanker", arg |-> ranker_name,
                  ret |-> ranker_name \in ranker_registry_.rankers_]
    /\ calls' = calls + 1
    /\ UNCHANGED <<engineVars, cacheVars, file, snap, mutex_, thread, fuzzy_search_,
                   skips, added, top_k, cache, ngrams, access>>

\* SearchEngine::search with the registry as the calls above left it
SearchRanked(query, options) ==
    /\ calls < MaxCalls
    /\ LET key == QueryCacheKey(query, options)
           lookup == options.use_cache /\ query # <<>>
           present == lookup /\ key \in DOMAIN query_cache
       IN  \E expired \in BOOLEAN :
             IF present /\ ~expired
             THEN \* QueryCache::get hits
                  /\ hit_count' = hit_count + 1
                  /\ lastOp' = [op |-> "search", arg |-> <<query, options>>,
                                ret |-> query_cache[key], hit |-> TRUE]
                  /\ UNCHANGED <<query_cache, miss_count, eviction_count>>
             ELSE /\ present \/ ~expired
                  /\ \E results \in ComputeRanked(ranker_registry_, documents, index,
                                                  query, options) :
                       /\ lastOp' = [op |-> "search", arg |-> <<query, options>>,
                                     ret |-> results, hit |-> FALSE]
                       /\ query_cache' =
                              IF lookup THEN MapPut(query_cache, key, results)
                              ELSE query_cache
                  /\ miss_count' = IF lookup THEN miss_count + 1 ELSE miss_count
                  /\ eviction_count' = IF present THEN eviction_count + 1
                                       ELSE eviction_count
                  /\ UNCHANGED hit_count
    /\ calls' = calls + 1
    /\ UNCHANGED <<engineVars, file, snap, mutex_, thread, fuzzy_search_, libVars>>

\* searches of an indexed engine between changes of its registry
NextRegistry ==
    \/ \E name \in RegisteredNames, formula \in ScoringFormulas :
          RegisterCustomRanker(name, formula)
    \/ \E ranker_name \in DefaultNames : SetDefaultRanker(ranker_name)
    \/ \E query \in Queries, options \in RankedOptionSet : SearchRanked(query, options)

SpecRegistry == InitSelect /\ [][NextRegistry]_vars

\* ------------------------------------------------------------ QueryParser::parse
\* Query strings are strings of characters put together from a few pieces;
\* tokenizeQuery reads them character by character.
MaxLexemes == 4

Lexemes ==
    {<<"a">>, <<" ">>, <<" ", "O", "R", " ">>, <<" ", "a", "n", "d", " ">>,
     <<" ", "N", "O", "T", " ">>, <<"(">>, <<")">>, <<":">>, <<"\"">>, <<"~">>,
     <<"~", "1">>, <<"!">>}

ParserQueries == {Concat(pieces) : pieces \in SeqsUpTo(Lexemes, MaxLexemes)}

UpperCase == [a |-> "A", n |-> "N", d |-> "D", o |-> "O", r |-> "R", t |-> "T"]
toupper(ch) == IF ch \in DOMAIN UpperCase THEN UpperCase[ch] ELSE ch
isdigit(ch) == ch \in {"0", "1"}
isalnum(ch) == isdigit(ch) \/ ch \in DOMAIN UpperCase \/ ch \in DOMAIN LowerCase

QueryToken(type, value) == [type |-> type, value |-> value]
EndToken == QueryToken("END", <<>>)

\* the index after the run of digits that starts at i
RECURSIVE DigitRunEnd(_, _)
DigitRunEnd(s, i) ==
    IF i <= Len(s) /\ isdigit(s[i]) THEN DigitRunEnd(s, i + 1) ELSE i

\* the index after the run of alphanumeric characters and underscores at i
RECURSIVE WordRunEnd(_, _)
WordRunEnd(s, i) ==
    IF i <= Len(s) /\ (isalnum(s[i]) \/ s[i] = "_") THEN WordRunEnd(s, i + 1) ELSE i

WordToken(word) ==
    LET word_upper == [k \in DOMAIN word |-> toupper(word[k])]
    IN  IF word_upper = <<"A", "N", "D">> THEN QueryToken("AND_OP", word)
        ELSE IF word_upper = <<"O", "R">> THEN QueryToken("OR_OP", word)
        ELSE IF word_upper = <<"N", "O", "T">> THEN QueryToken("NOT_OP", word)
        ELSE QueryToken("WORD", [k \in DOMAIN word |-> tolower(word[k])])

SingleCharTokens ==
    [c \in {"(", ")", ":", "~", "\""} |->
        CASE c = "(" -> "LPAREN" [] c = ")" -> "RPAREN" [] c = ":" -> "COLON"
          [] c = "~" -> "TILDE" [] c = "\"" -> "QUOTE"]

\* QueryParser::tokenizeQuery
RECURSIVE TokenizeLoop(_, _, _)
TokenizeLoop(query_string, i, tokens) ==
    IF i > Len(query_string) THEN Append(tokens, EndToken)
    ELSE LET c == query_string[i]
         IN  IF isspace(c) THEN TokenizeLoop(query_string, i + 1, tokens)
             ELSE IF c \in DOMAIN SingleCharTokens
             THEN TokenizeLoop(query_string, i + 1,
                               Append(tokens, QueryToken(SingleCharTokens[c], <<c>>)))
             ELSE IF isdigit(c)
             THEN LET j == DigitRunEnd(query_string, i)
                  IN  TokenizeLoop(query_string, j,
                          Append(tokens, QueryToken("NUMBER", SubSeq(query_string, i, j - 1))))
             ELSE IF isalnum(c) \/ c = "_"
             THEN LET j == WordRunEnd(query_string, i)
                  IN  TokenizeLoop(query_string, j,
                          Append(tokens, WordToken(SubSeq(query_string, i, j - 1))))
             ELSE TokenizeLoop(query_string, i + 1, tokens)

tokenizeQuery(query_string) == TokenizeLoop(query_string, 1, <<>>)

\* QueryParser::peek; positions count from 1
peek(tokens, pos) == IF pos <= Len(tokens) THEN tokens[pos] ELSE EndToken

isAtEnd(tokens, pos) == pos > Len(tokens) \/ peek(tokens, pos).type = "END"

\* the nodes of the tree; nullptr is a node of its own type
nullptr == [type |-> "nullptr"]
TermNode(term) == [type |-> "TERM", term |-> term]
PhraseNode(terms, dist) == [type |-> "PHRASE", terms |-> terms, max_distance |-> dist]
FieldNode(field, q) == [type |-> "FIELD", field_name |-> field, query |-> q]
NotNode(c) == [type |-> "NOT", child |-> c]
ListNode(type, children) == [type |-> type, children |-> children]

\* what a parse function leaves: the node it returns and current_position_, or
\* the std::runtime_error it throws
ParseResult(node, pos) == [node |-> node, pos |-> pos, threw |-> FALSE]
Thrown == [node |-> nullptr, pos |-> 0, threw |-> TRUE]

\* std::stoi of a string of digits
RECURSIVE stoi(_)
stoi(digits) ==
    IF digits = <<>> THEN 0
    ELSE 10 * stoi(SubSeq(digits, 1, Len(digits) - 1))
         + (IF digits[Len(digits)] = "1" THEN 1 ELSE 0)

\* QueryParser::parseTerm
parseTerm(tokens, pos) ==
    IF peek(tokens, pos).type # "WORD" THEN ParseResult(nullptr, pos)
    ELSE ParseResult(TermNode(peek(tokens, pos).value), pos + 1)

\* the position after the WORD tokens that start at pos
RECURSIVE PhraseEnd(_, _)
PhraseEnd(tokens, pos) ==
    IF peek(tokens, pos).type = "WORD" THEN PhraseEnd(tokens, pos + 1) ELSE pos

\* QueryParser::parsePhrase
parsePhrase(tokens, pos) ==
    IF peek(tokens, pos).type # "QUOTE" THEN Thrown
    ELSE LET e == PhraseEnd(tokens, pos + 1)
             terms == [k \in 1..(e - pos - 1) |-> tokens[pos + k].value]
         IN  IF peek(tokens, e).type # "QUOTE" THEN Thrown
             ELSE IF terms = <<>> THEN Thrown
             ELSE IF peek(tokens, e + 1).type = "TILDE"
                  THEN IF peek(tokens, e + 2).type = "NUMBER"
                       THEN ParseResult(PhraseNode(terms, stoi(peek(tokens, e + 2).value)), e + 3)
                       ELSE ParseResult(PhraseNode(terms, 0), e + 2)
                  ELSE ParseResult(PhraseNode(terms, 0), e + 1)

\* the rest of parseFieldedTerm once the term or phrase after the colon is parsed
FieldOf(field_name, query) ==
    IF query.threw THEN Thrown
    ELSE ParseResult(FieldNode(field_name, query.node), query.pos)

\* QueryParser::parseFieldedTerm
parseFieldedTerm(tokens, pos) ==
    IF peek(tokens, pos + 1).type # "COLON" THEN Thrown
    ELSE FieldOf(peek(tokens, pos).value,
                 IF peek(tokens, pos + 2).type = "QUOTE"
                 THEN parsePhrase(tokens, pos + 2)
                 ELSE parseTerm(tokens, pos + 2))

\* left with right as one more child when left is a node of the type, a new
\* node of the type over the two otherwise
Joined(type, left, right) ==
    IF left.type = type THEN ListNode(type, Append(left.children, right))
    ELSE ListNode(type, <<left, right>>)

RECURSIVE parseExpression(_, _), ExpressionLoop(_, _, _), parseTermExpression(_, _),
          TermExpressionLoop(_, _, _), parseFactorExpression(_, _), parseAtom(_, _)

\* the rest of parseAtom once the expression after '(' is parsed
CloseParen(tokens, expr) ==
    IF expr.threw THEN Thrown
    ELSE IF peek(tokens, expr.pos).type # "RPAREN" THEN Thrown
    ELSE ParseResult(expr.node, expr.pos + 1)

\* QueryParser::parseAtom
parseAtom(tokens, pos) ==
    IF peek(tokens, pos).type = "LPAREN"
    THEN CloseParen(tokens, parseExpression(tokens, pos + 1))
    ELSE IF peek(tokens, pos).type = "QUOTE" THEN parsePhrase(tokens, pos)
    ELSE IF /\ peek(tokens, pos).type = "WORD"
            /\ pos + 1 <= Len(tokens)
            /\ tokens[pos + 1].type = "COLON"
         THEN parseFieldedTerm(tokens, pos)
    ELSE parseTerm(tokens, pos)

\* the rest of parseFactorExpression once the atom after NOT is parsed
NotOf(child) ==
    IF child.threw \/ child.node = nullptr THEN Thrown
    ELSE ParseResult(NotNode(child.node), child.pos)

\* QueryParser::parseFactorExpression
parseFactorExpression(tokens, pos) ==
    IF peek(tokens, pos).type = "NOT_OP" THEN NotOf(parseAtom(tokens, pos + 1))
    ELSE parseAtom(tokens, pos)

\* one round of the while loop of parseTermExpression, after its right operand
OrStep(tokens, left, right) ==
    IF right.threw THEN Thrown
    ELSE IF right.node = nullptr THEN ParseResult(left, right.pos)
    ELSE TermExpressionLoop(tokens, Joined("OR", left, right.node), right.pos)

\* the while loop of parseTermExpression
TermExpressionLoop(tokens, left, pos) ==
    IF peek(tokens, pos).type # "OR_OP" THEN ParseResult(left, pos)
    ELSE OrStep(tokens, left, parseFactorExpression(tokens, pos + 1))

\* parseTermExpression after its first operand
OrStart(tokens, left) ==
    IF left.threw THEN Thrown
    ELSE IF left.node = nullptr THEN ParseResult(nullptr, left.pos)
    ELSE TermExpressionLoop(tokens, left.node, left.pos)

\* QueryParser::parseTermExpression
parseTermExpression(tokens, pos) == OrStart(tokens, parseFactorExpression(tokens, pos))

\* one round of the while loop of parseExpression, after its right operand
AndStep(tokens, left, right) ==
    IF right.threw THEN Thrown
    ELSE IF right.node = nullptr THEN ParseResult(left, right.pos)
    ELSE ExpressionLoop(tokens, Joined("AND", left, right.node), right.pos)

\* the while loop of parseExpression
ExpressionLoop(tokens, left, pos) ==
    IF isAtEnd(tokens, pos) \/ peek(tokens, pos).type = "RPAREN" THEN ParseResult(left, pos)
    ELSE LET matched == peek(tokens, pos).type = "AND_OP"
             next == IF matched THEN pos + 1 ELSE pos
             explicit_and == \/ matched
                             \/ peek(tokens, next).type \in {"WORD", "QUOTE", "LPAREN", "NOT_OP"}
         IN  IF ~explicit_and THEN ParseResult(left, next)
             ELSE AndStep(tokens, left, parseTermExpression(tokens, next))

\* parseExpression after its first operand
AndStart(tokens, left) ==
    IF left.threw THEN Thrown
    ELSE IF left.node = nullptr THEN ParseResult(nullptr, left.pos)
    ELSE ExpressionLoop(tokens, left.node, left.pos)

\* QueryParser::parseExpression
parseExpression(tokens, pos) ==
    IF isAtEnd(tokens, pos) THEN ParseResult(nullptr, pos)
    ELSE AndStart(tokens, parseTermExpression(tokens, pos))

\* what parse makes of the result of parseExpression; error tells whether the
\* catch clause ran
Caught(query_string, result) ==
    IF result.threw THEN [node |-> TermNode(query_string), error |-> TRUE]
    ELSE IF result.node = nullptr THEN [node |-> TermNode(<<>>), error |-> FALSE]
    ELSE [node |-> result.node, error |-> FALSE]

\* QueryParser::parse
parse(query_string) ==
    IF query_string = <<>> THEN [node |-> TermNode(<<>>), error |-> FALSE]
    ELSE Caught(query_string, parseExpression(tokenizeQuery(query_string), 1))

InitParse ==
    /\ Constructed
    /\ \E query_string \in ParserQueries :
          lastOp = [op |-> "input", arg |-> query_string, ret |-> nullptr]

ParseCall(query_string, parsed) ==
    [op |-> "parse", arg |-> query_string, ret |-> parsed.node, error |-> parsed.error]

\* a call of QueryParser::parse
Parse ==
    /\ lastOp.op = "input"
    /\ lastOp' = ParseCall(lastOp.arg, parse(lastOp.arg))
    /\ UNCHANGED <<engineVars, cacheVars, file, snap, calls, mutex_, thread,
                   fuzzy_search_, libVars>>

NextParse == Parse

SpecParse == InitParse /\ [][NextParse]_vars

\* ------------------------------------------------------------------ claims
CallStep == calls' # calls

PostingIds(idx, term) == {p.doc_id : p \in Range(PostingsOf(idx, term))}

\* C1: every posting list of the index has strictly ascending doc_ids.
C1_PostingsAscending ==
    \A t \in DOMAIN index :
        \A i \in 1..(Len(index[t]) - 1) : index[t][i].doc_id < index[t][i + 1].doc_id

\* C2: indexDocument with doc.id = 0 returns an id that no live document has.
C2_AssignedIdIsFresh ==
    [][(CallStep /\ lastOp'.op = "indexDocument" /\ lastOp'.arg.id = 0)
         => lastOp'.ret \notin DOMAIN documents]_vars

\* C3: the posting list of a term contains an id exactly when that id is a live
\* document whose current token stream contains the term.
C3_IndexReflectsDocuments ==
    \A t \in Terms, d \in 0..(MaxId + 1) :
        d \in PostingIds(index, t)
            <=> (d \in DOMAIN documents /\ t \in Range(tokenize(documents[d].text)))

SuccessfulWrite(op) ==
    \/ op.op \in {"indexDocument", "indexDocuments"}
    \/ op.op \in {"updateDocument", "deleteDocument", "loadSnapshot"} /\ op.ret = TRUE

\* C4: a write that succeeds leaves the query cache empty, and a cached search on
\* an empty cache is counted as a miss and answered from the current state.
C4_WriteEmptiesCache ==
    [][/\ (CallStep /\ SuccessfulWrite(lastOp')) => query_cache' = EmptyMap
       /\ (CallStep /\ lastOp'.op = "search" /\ query_cache = EmptyMap
             /\ lastOp'.arg[2].use_cache /\ lastOp'.arg[1] # <<>>)
            => /\ miss_count' = miss_count + 1
               /\ hit_count' = hit_count
               /\ lastOp'.ret \in ComputeResults(documents, index,
                                                lastOp'.arg[1], lastOp'.arg[2])]_vars

\* two cached searches missed although no entry expired and only one entry is
\* left: a successful write between them emptied the cache
C4_Witness ==
    /\ lastOp.op = "search"
    /\ miss_count = 2
    /\ eviction_count = 0
    /\ Cardinality(DOMAIN query_cache) = 1

OptionsOfKey(key) ==
    SearchOptions(key.options_hash[1], key.options_hash[2], key.options_hash[3],
                  key.options_hash[4], TRUE)

\* C5: the query cache never holds a result that the current documents and index
\* do not produce, so a cached search cannot return a stale result.
C5_CacheNeverStale ==
    \A key \in DOMAIN query_cache :
        query_cache[key] \in ComputeResults(documents, index, key.normalized_query,
                                            OptionsOfKey(key))

HasQueryTerm(doc, query) == \E i \in DOMAIN query : query[i] \in Range(tokenize(doc.text))

ResultIds(results) == {results[i].document.id : i \in DOMAIN results}

MatchingDocs(docs, query) == {d \in DOMAIN docs : HasQueryTerm(docs[d], query)}

\* the result lists a search may return when it runs entirely on one of the
\* committed states that existed while it was in progress
AtomicResults(rec) ==
    UNION {ComputeResults(s.documents, s.index, rec.query, rec.options) : s \in rec.seen}

\* C6: a search that runs concurrently with updateDocument returns what it
\* returns when run entirely before or entirely after the update.
C6_UpdateAtomicForSearch ==
    \A t \in Readers :
        thread[t].pc = "returned" => thread[t].ret \in AtomicResults(thread[t])

\* a search that was called while an update had removed the old postings and
\* not yet inserted the new ones returned the updated document
C6_Witness ==
    \E t \in Readers :
        /\ thread[t].pc = "returned"
        /\ thread[t].overlapped
        /\ thread[t].ret # <<>>

C8_SnapshotRoundTrip ==
    (/\ lastOp.op = "loadSnapshot"
     /\ lastOp.ret = TRUE
     /\ file.data = Serialize(snap.documents, snap.index, snap.next_doc_id))
        => /\ documents = snap.documents
           /\ next_doc_id = snap.next_doc_id
           /\ index = snap.index

ValidHeader(data) ==
    Len(data) >= 2 /\ data[1] = SNAPSHOT_MAGIC /\ data[2] = SNAPSHOT_VERSION

\* C9: loadSnapshot on a file that does not start with the magic and version 1
\* returns false and changes nothing.
C9_BadHeaderLeavesEngine ==
    [][(CallStep /\ lastOp'.op = "loadSnapshot" /\ file.exists /\ ~ValidHeader(file.data))
         => /\ lastOp'.ret = FALSE
            /\ UNCHANGED <<documents, index, next_doc_id, query_cache>>]_vars

\* C10: a loadSnapshot that fails after its clear step leaves no document and no
\* index term.
C10_FailedLoadLeavesEmpty ==
    (lastOp.op = "loadSnapshot" /\ lastOp.cleared /\ lastOp.ret = FALSE)
        => (documents = EmptyMap /\ index = EmptyMap)

\* C11: after a successful loadSnapshot the fuzzy n-gram index is un-built.
C11_LoadLeavesFuzzyUnbuilt ==
    (lastOp.op = "loadSnapshot" /\ lastOp.ret = TRUE) => ~fuzzy_search_.index_built_

\* C12: updateDocument and deleteDocument with an id that is not in the
\* document store return false and leave documents, index, next id and the
\* contents of the query cache as they were.
C12_UnknownIdChangesNothing ==
    [][(CallStep /\ lastOp'.op \in {"updateDocument", "deleteDocument"}
          /\ lastOp'.arg \notin DOMAIN documents)
         => /\ lastOp'.ret = FALSE
            /\ UNCHANGED <<documents, index, next_doc_id, query_cache>>]_vars

\* deleteDocument of an unknown id returned false on an engine that holds a
\* document and a cached result
C12_Witness ==
    /\ lastOp.op = "deleteDocument"
    /\ lastOp.ret = FALSE
    /\ documents # EmptyMap
    /\ query_cache # EmptyMap

\* C13: every doc_id in a posting list is the id of a stored document, no term
\* of the index has an empty posting list, and after a deleteDocument that
\* returned true no posting list mentions the deleted id.
C13_PostingsReferToDocuments ==
    /\ \A t \in DOMAIN index :
          /\ index[t] # <<>>
          /\ \A i \in DOMAIN index[t] : index[t][i].doc_id \in DOMAIN documents
    /\ (lastOp.op = "deleteDocument" /\ lastOp.ret = TRUE)
          => \A t \in DOMAIN index : lastOp.arg \notin PostingIds(index, t)

\* C14: the document frequency of a term is the length of its posting list and
\* the number of distinct doc_ids added for the term and not removed since; an
\* addTerm for a doc_id the list holds adds no posting and raises the
\* term_frequency of that posting by one.
C14_FrequencyCountsDistinctIds ==
    /\ [](/\ \A t \in IndexTerms :
              /\ getDocumentFrequency(index, t) = Len(PostingsOf(index, t))
              /\ getDocumentFrequency(index, t) = Cardinality({p \in added : p[1] = t})
              /\ PostingIds(index, t) = {p[2] : p \in {q \in added : q[1] = t}}
          /\ getTermCount(index) = Cardinality({p[1] : p \in added}))
    /\ [][(lastOp'.op = "addTerm" /\ calls' # calls
            /\ <<lastOp'.arg[1], lastOp'.arg[2]>> \in added)
           => LET t == lastOp'.arg[1]
                  i == FindPosting(index[t], lastOp'.arg[2], 1)
              IN  /\ Len(index'[t]) = Len(index[t])
                  /\ \A j \in DOMAIN index[t] :
                        IF j = i
                        THEN /\ index'[t][j].doc_id = index[t][j].doc_id
                             /\ index'[t][j].term_frequency
                                    = index[t][j].term_frequency + 1
                        ELSE index'[t][j] = index[t][j]]_vars

C14_Witness ==
    /\ lastOp.op = "removeDocument"
    /\ \E t \in DOMAIN index : Len(index[t]) >= 2 /\ index[t][1].doc_id > index[t][2].doc_id
    /\ \E t \in DOMAIN index : \E i \in DOMAIN index[t] : index[t][i].term_frequency >= 2

\* C16: for two posting lists with strictly ascending doc_ids, each with or
\* without skip pointers built at any interval, intersectWithSkips returns the
\* doc_ids present in both lists, ascending, each once.
C16_IntersectionIsExact ==
    lastOp.op = "intersectWithSkips"
        => lastOp.ret = Ascending({p.doc_id : p \in Range(lastOp.arg[1].postings)}
                                  \cap {p.doc_id : p \in Range(lastOp.arg[2].postings)})

C16_Witness ==
    /\ lastOp.op = "intersectWithSkips"
    /\ lastOp.ret # <<>>
    /\ LET list1 == lastOp.arg[1]
           list2 == lastOp.arg[2]
       IN  /\ list1.skip_pointers # <<>>
           /\ list2.skip_pointers # <<>>
           /\ Len(list1.skip_pointers) < Len(list1.postings)
           /\ list1.postings[1].doc_id < list2.postings[1].doc_id
           /\ findSkipTarget(list1, list2.postings[1].doc_id) >= 2

SkipPointersValid(list) ==
    \A k \in DOMAIN list.skip_pointers :
        LET sp == list.skip_pointers[k]
        IN  /\ sp.position < Len(list.postings)
            /\ list.postings[sp.position + 1].doc_id = sp.doc_id

\* C17: every posting list whose needsSkipRebuild() is false has skip pointers
\* that point inside the list at the doc_id they record, and getPostingList of
\* an existing term returns a list with needsSkipRebuild() false and at least
\* one skip pointer.
C17_CleanSkipsAreValid ==
    /\ \A t \in DOMAIN index :
          LET list == PostingList(index[t], SkipsOf(skips, t))
          IN  ~list.skips_dirty_ => SkipPointersValid(list)
    /\ \A t \in DOMAIN index :
          LET list == getPostingList(index, skips, t)
          IN  /\ ~list.skips_dirty_
              /\ Len(list.skip_pointers) >= 1
              /\ SkipPointersValid(list)
    /\ (lastOp.op = "getPostingList" /\ lastOp.ret.postings # <<>>)
          => /\ ~lastOp.ret.skips_dirty_
             /\ Len(lastOp.ret.skip_pointers) >= 1
             /\ SkipPointersValid(lastOp.ret)

C17_Witness ==
    /\ lastOp.op = "getPostingList"
    /\ lastOp.ret.postings # <<>>
    /\ LET s == SkipsOf(skips, lastOp.arg)
       IN  /\ s.skips_dirty_
           /\ s.skip_pointers # <<>>
           /\ ~SkipPointersValid(PostingList(lastOp.ret.postings, s))

\* the 0-based positions, ascending, at which term t stands in a token stream
RECURSIVE TokenPositions(_, _, _)
TokenPositions(tokens, t, position) ==
    IF tokens = <<>> THEN <<>>
    ELSE (IF Head(tokens) = t THEN <<position>> ELSE <<>>)
         \o TokenPositions(Tail(tokens), t, position + 1)

\* C15: after indexDocument of a document under an id that was not stored, the
\* posting of each of its terms has term_frequency equal to the number of
\* occurrences of the term in the token stream and positions equal to the
\* ascending list of all 0-based token positions of the term, position 0 included.
C15_PositionsOfEveryOccurrence ==
    [][(CallStep /\ lastOp'.op = "indexDocument" /\ lastOp'.ret \notin DOMAIN documents)
         => LET tokens == tokenize(getAllText(lastOp'.arg))
            IN  \A t \in Range(tokens) :
                  LET i == FindPosting(PostingsOf(index', t), lastOp'.ret, 1)
                      occurrences == TokenPositions(tokens, t, 0)
                  IN  /\ i # 0
                      /\ index'[t][i].term_frequency = Len(occurrences)
                      /\ index'[t][i].positions = occurrences
                      /\ Len(index'[t][i].positions) = index'[t][i].term_frequency]_vars

\* the items of S from best to worst: higher score first, lower doc_id first on
\* equal score
RECURSIVE BestFirst(_)
BestFirst(S) ==
    IF S = {} THEN <<>>
    ELSE LET b == CHOOSE x \in S :
                    \A y \in S : y = x \/ x.score > y.score
                                       \/ (x.score = y.score /\ x.doc_id < y.doc_id)
         IN  <<b>> \o BestFirst(S \ {b})

\* C18: a heap of capacity K never holds more than K items, a heap of capacity 0
\* accepts nothing, it holds the min(K, n) best of the n items pushed, and
\* getSorted returns them from best to worst (higher score first, lower doc_id
\* first on equal score) and leaves the heap empty.
C18_HeapKeepsTheBest ==
    LET n == Cardinality(top_k.pushed)
        kept == IF n < top_k.capacity_ THEN n ELSE top_k.capacity_
    IN  /\ Cardinality(top_k.heap_) <= top_k.capacity_
        /\ top_k.capacity_ = 0 => top_k.heap_ = {}
        /\ top_k.heap_ = Range(SubSeq(BestFirst(top_k.pushed), 1, kept))
        /\ lastOp.op = "getSorted"
              => LET m == Cardinality(lastOp.arg)
                     returned == IF m < top_k.capacity_ THEN m ELSE top_k.capacity_
                 IN  /\ lastOp.ret = SubSeq(BestFirst(lastOp.arg), 1, returned)
                     /\ top_k.heap_ = {}

C18_Witness ==
    /\ lastOp.op = "getSorted"
    /\ top_k.capacity_ = 2
    /\ Cardinality(lastOp.arg) = 4
    /\ Len(lastOp.ret) = 2
    /\ lastOp.ret[1].score = lastOp.ret[2].score
    /\ \E x \in lastOp.arg : x \notin Range(lastOp.ret) /\ x.score = lastOp.ret[2].score

\* the (doc_id, score) pairs of a result list; the doc_ids of a list are distinct
ScoredIds(results) == {<<results[i].document.id, results[i].score>> : i \in DOMAIN results}

\* C19: on the same engine state, a search with use_top_k_heap = true and a search
\* with use_top_k_heap = false for the same query and the same other options
\* return the same multiset of (doc_id, score) pairs.
C19_HeapAndSortAgree ==
    [][(CallStep /\ lastOp.op = "search" /\ lastOp'.op = "search"
          /\ lastOp'.arg[1] = lastOp.arg[1]
          /\ lastOp'.arg[2] = [lastOp.arg[2] EXCEPT !.use_top_k_heap = ~@])
         => /\ Len(lastOp'.ret) = Len(lastOp.ret)
            /\ ScoredIds(lastOp'.ret) = ScoredIds(lastOp.ret)]_vars

\* C20: every search returns at most max_results results, in non-increasing
\* score order, each with a score above 0 and each a document of the store;
\* with max_results = 0 it returns none.
C20_ResultsBoundedOrderedStored ==
    lastOp.op = "search"
        => LET results == lastOp.ret
               options == lastOp.arg[2]
           IN  /\ Len(results) <= options.max_results
               /\ NonIncreasing(results)
               /\ \A i \in DOMAIN results :
                     /\ results[i].score > 0
                     /\ results[i].document.id \in DOMAIN documents
                     /\ documents[results[i].document.id] = results[i].document
               /\ options.max_results = 0 => results = <<>>

\* C21: search scores with the ranker named by options.ranker_name when that
\* name is registered; otherwise with TF-IDF when options.algorithm is TF_IDF
\* and with the registry's default ranker when it is not.
C21_RankerSelection ==
    lastOp.op = "selectRanker"
        => LET registry == lastOp.arg[1]
               options == lastOp.arg[2]
           IN  lastOp.ret = IF options.ranker_name \in registry.rankers_
                            THEN options.ranker_name
                            ELSE IF options.algorithm = "TF_IDF" THEN "TF-IDF"
                            ELSE registry.default_ranker_

\* C22: after every call on the cache, whatever the interleaving, the cache
\* holds at most max_entries entries (none when max_entries is 0), and the LRU
\* list and the entry map hold the same keys, each once.
C22_CacheBoundedAndListMatchesMap ==
    /\ Cardinality(DOMAIN cache.entries_) <= cache.max_entries_
    /\ cache.max_entries_ = 0 => cache.entries_ = EmptyMap
    /\ Range(cache.lru_order_) = DOMAIN cache.entries_
    /\ Len(cache.lru_order_) = Cardinality(DOMAIN cache.entries_)

C22_Witness ==
    /\ lastOp.op = "setMaxEntries"
    /\ cache.eviction_count_ >= 1
    /\ Len(cache.lru_order_) = 1
    /\ \E t \in Getters : cache.gets[t].pc = "upgrade"

\* C23: eviction is least-recently-used: the LRU list runs from the key put or
\* found last to the key put or found first, a put or a setMaxEntries that
\* removes entries removes those used longest ago and counts each removal in
\* eviction_count, and a successful get or a put makes its key the most recent.
C23_EvictsLeastRecentlyUsed ==
    /\ [](\A i \in DOMAIN cache.lru_order_ : \A j \in DOMAIN cache.lru_order_ :
             i < j => cache.last_used[cache.lru_order_[i]]
                         > cache.last_used[cache.lru_order_[j]])
    /\ [][(CallStep /\ lastOp'.op \in {"put", "setMaxEntries"})
            => LET before == DOMAIN cache.entries_
                            \cup (IF lastOp'.op = "put" THEN {lastOp'.arg} ELSE {})
                   removed == before \ DOMAIN cache'.entries_
               IN  /\ \A r \in removed \cap DOMAIN cache.entries_ :
                         \A k \in DOMAIN cache'.entries_ :
                            cache.last_used[r] < cache'.last_used[k]
                   /\ cache'.eviction_count_ = cache.eviction_count_ + Cardinality(removed)]_vars
    /\ [][(CallStep /\ lastOp'.op \in {"put", "get"} /\ lastOp'.ret = TRUE
             /\ lastOp'.arg \in DOMAIN cache'.entries_)
            => cache'.lru_order_[1] = lastOp'.arg]_vars

C23_Witness ==
    /\ lastOp.op = "put"
    /\ cache.max_entries_ = 2
    /\ cache.eviction_count_ = 1
    /\ cache.lru_order_ = <<3, 1>>
    /\ cache.entries_[1].timestamp = 0
    /\ cache.hit_count_ = 1

\* C24: every completed get increments exactly one of hit_count (returning true
\* with the stored value) and miss_count (returning false), whatever happens
\* between its two lock phases; hit_count + miss_count is the number of
\* completed gets and hit_rate is hits / (hits + misses), 0 when there were none.
C24_EveryGetCountsOnce ==
    /\ [](/\ cache.hit_count_ + cache.miss_count_ = cache.completed_gets
          /\ getStats(cache).hit_rate
                = IF cache.completed_gets = 0 THEN 0
                  ELSE (1000 * cache.hit_count_) \div cache.completed_gets)
    /\ [][IF CallStep /\ lastOp'.op = "get"
          THEN IF lastOp'.ret
               THEN /\ cache'.hit_count_ = cache.hit_count_ + 1
                    /\ cache'.miss_count_ = cache.miss_count_
                    /\ lastOp'.arg \in DOMAIN cache.entries_
                    /\ lastOp'.results = cache.entries_[lastOp'.arg].results
               ELSE /\ cache'.hit_count_ = cache.hit_count_
                    /\ cache'.miss_count_ = cache.miss_count_ + 1
          ELSE /\ cache'.hit_count_ = cache.hit_count_
               /\ cache'.miss_count_ = cache.miss_count_]_vars

C24_Witness ==
    /\ lastOp.op = "get" /\ lastOp.outcome = "absent" /\ lastOp.phase = "unique"
    /\ cache.hit_count_ = 1 /\ cache.miss_count_ = 1
    /\ \E t \in Getters : cache.gets[t].pc = "upgrade"

\* C25: a get that finds an entry older than a positive TTL returns a miss,
\* erases the entry and adds one to miss_count and one to eviction_count; an
\* entry that is not older than the TTL, and any entry when the TTL is 0, is a
\* hit; a put gives its entry the age 0.
C25_TtlExpiry ==
    /\ [][(CallStep /\ lastOp'.op = "get" /\ lastOp'.phase = "unique"
             /\ lastOp'.arg \in DOMAIN cache.entries_)
            => LET key == lastOp'.arg
                   age == cache.gets[lastOp'.thread].now - cache.entries_[key].timestamp
               IN  IF cache.ttl_ > 0 /\ age > cache.ttl_
                   THEN /\ lastOp'.ret = FALSE
                        /\ key \notin DOMAIN cache'.entries_
                        /\ cache'.miss_count_ = cache.miss_count_ + 1
                        /\ cache'.eviction_count_ = cache.eviction_count_ + 1
                   ELSE /\ lastOp'.ret = TRUE
                        /\ key \in DOMAIN cache'.entries_]_vars
    /\ [][(CallStep /\ lastOp'.op = "put" /\ lastOp'.arg \in DOMAIN cache'.entries_)
            => cache'.entries_[lastOp'.arg].timestamp = cache'.now]_vars

C25_Witness ==
    /\ lastOp.op = "get" /\ lastOp.outcome = "expired"
    /\ lastOp.age = 2 /\ cache.ttl_ = 1
    /\ cache.eviction_count_ = 1 /\ cache.miss_count_ = 1

\* C26: every call that changes the tokenizer or the ranker registry
\* (setTokenizer, setStemmer, setRemoveStopwords, enableSIMD,
\* registerCustomRanker, setDefaultRanker) holds the engine's unique lock while
\* it writes, so it never runs while indexDocument or search on another thread
\* uses the tokenizer or the registry.
C26_ConfigUnderUniqueLock ==
    /\ \A a \in access :
          (a.object \in {"tokenizer_", "ranker_registry_"} /\ a.kind = "write")
             => mutex_.unique = a.thread
    /\ ~Conflict("tokenizer_")
    /\ ~Conflict("ranker_registry_")

\* C27: the fuzzy n-gram index is written only by the thread that holds the
\* engine's unique lock: two searches never build it at once and no search
\* reads it while another search builds it.
C27_NgramIndexWrittenUnderUniqueLock ==
    /\ \A a \in access :
          (a.object = "fuzzy_search_" /\ a.kind = "write") => mutex_.unique = a.thread
    /\ ~Conflict("fuzzy_search_")

\* the bigram g occurs in "^" + t + "$"
OccursInPadded(g, t) ==
    LET padded == <<"^">> \o t \o <<"$">>
    IN  \E i \in 1..(Len(padded) - 1) : SubSeq(padded, i, i + 1) = g

Bigrams == {<<x, y>> : x \in FuzzyChars \cup {"^"}, y \in FuzzyChars \cup {"$"}}

\* C28: after any sequence of buildNgramIndex, addTerm, removeTerm and clear,
\* a term t is in the set of the bigram g exactly when t is in the vocabulary
\* and g occurs in ^t$; no bigram maps to an empty set; addTerm of a term that
\* is present and removeTerm of a term that is absent change nothing.
C28_NgramIndexMatchesVocabulary ==
    /\ [](/\ \A t \in FuzzyTerms : \A g \in Bigrams :
                (g \in DOMAIN ngrams.ngram_index_ /\ t \in ngrams.ngram_index_[g])
                   <=> (t \in ngrams.vocabulary_ /\ OccursInPadded(g, t))
          /\ DOMAIN ngrams.ngram_index_ \subseteq Bigrams
          /\ \A g \in DOMAIN ngrams.ngram_index_ : ngrams.ngram_index_[g] # {})
    /\ [][(CallStep /\ lastOp'.op = "addTerm" /\ lastOp'.arg \in ngrams.vocabulary_)
             => ngrams' = ngrams]_vars
    /\ [][(CallStep /\ lastOp'.op = "removeTerm" /\ lastOp'.arg \notin ngrams.vocabulary_)
             => ngrams' = ngrams]_vars

\* C29: damerauLevenshteinDistance(s, s, k) is 0; the distance of s1 and s2
\* is the distance of s2 and s1, the same number also above k; the returned
\* value is at most the length of the longer string.
C29_DistanceZeroSymmetricBounded ==
    lastOp.op = "damerauLevenshteinDistance"
        => LET s1 == lastOp.arg[1]
               s2 == lastOp.arg[2]
           IN  /\ s1 = s2 => lastOp.ret = 0
               /\ lastOp.ret = lastOp.swapped
               /\ lastOp.ret <= IF Len(s1) > Len(s2) THEN Len(s1) ELSE Len(s2)

\* the strings one insertion, deletion, substitution or adjacent
\* transposition away from s
OneEdit(s) ==
    {SubSeq(s, 1, i - 1) \o SubSeq(s, i + 1, Len(s)) : i \in 1..Len(s)}
    \cup {SubSeq(s, 1, i) \o <<c>> \o SubSeq(s, i + 1, Len(s)) :
             i \in 0..Len(s), c \in IF Len(s) < MaxStrLen THEN DlChars ELSE {}}
    \cup {[s EXCEPT ![i] = c] : i \in 1..Len(s), c \in DlChars}
    \cup {[s EXCEPT ![i] = s[i + 1], ![i + 1] = s[i]] : i \in 1..(Len(s) - 1)}

\* the strings at most n edits away from a string of S
RECURSIVE WithinEdits(_, _)
WithinEdits(S, n) ==
    IF n = 0 THEN S ELSE WithinEdits(S \cup UNION {OneEdit(s) : s \in S}, n - 1)

\* the least number of edits that turn s1 into s2
MinimumEdits(s1, s2) == Least({n \in 0..MaxStrLen : s2 \in WithinEdits({s1}, n)})

\* C30: damerauLevenshteinDistance(s1, s2, k) is the least number of
\* insertions, deletions, substitutions and adjacent transpositions that turn
\* s1 into s2 when that number is at most k, and more than k otherwise.
C30_DistanceIsMinimumEdits ==
    lastOp.op = "damerauLevenshteinDistance"
        => LET minimum == MinimumEdits(lastOp.arg[1], lastOp.arg[2])
           IN  IF minimum <= lastOp.arg[3]
               THEN lastOp.ret = minimum
               ELSE lastOp.ret > lastOp.arg[3]

\* C34: findSkipTarget(target) returns the position of the greatest skip
\* pointer whose doc_id is at most target, a pointer at target itself
\* included, and 0 when there is no skip pointer or the first one is past target.
C34_FindSkipTargetAtOrBefore ==
    lastOp.op = "findSkipTarget"
        => LET skip_pointers == lastOp.arg[1].skip_pointers
               target == lastOp.arg[2]
               atOrBefore == {k \in DOMAIN skip_pointers : skip_pointers[k].doc_id <= target}
           IN  lastOp.ret = IF atOrBefore = {} THEN 0
                            ELSE skip_pointers[CHOOSE k \in atOrBefore :
                                                  \A m \in atOrBefore : m <= k].position

\* C35: with use_top_k_heap = true a search returns the first max_results
\* entries of the positive-score candidates ordered by score descending and
\* doc_id ascending, in whatever order the candidate set is iterated.
C35_HeapResultsAreTheBestFirst ==
    (lastOp.op = "search" /\ lastOp.arg[1] # <<>> /\ lastOp.arg[2].use_top_k_heap)
        => LET query == lastOp.arg[1]
               options == lastOp.arg[2]
               stats == IndexStats(documents, index)
               ranker == SelectRanker(options)
               scored == {[doc_id |-> d,
                           score |-> Score(ranker, query, documents[d], stats)] :
                             d \in CandidateDocIds(index, query) \cap DOMAIN documents}
               best == BestFirst({sd \in scored : sd.score > 0})
               n == IF Len(best) < options.max_results THEN Len(best)
                    ELSE options.max_results
           IN  /\ Len(lastOp.ret) = n
               /\ \A i \in 1..n : /\ lastOp.ret[i].document.id = best[i].doc_id
                                  /\ lastOp.ret[i].score = best[i].score

\* C33: when several threads call addTerm concurrently, each for its own
\* doc_id on shared terms, no update is lost: every term has exactly one
\* posting for each doc_id it was added for, with term_frequency equal to the
\* number of addTerm calls completed for that term and doc_id, and
\* getDocumentFrequency is the number of threads that added the term.
C33_NoAddTermLost ==
    \A term \in IndexTerms :
        /\ \A t \in Threads :
              LET doc_id == ThreadDocId[t]
                  own == {i \in DOMAIN PostingsOf(index, term) :
                             index[term][i].doc_id = doc_id}
              IN  IF AddedCount(term, doc_id) = 0 THEN own = {}
                  ELSE /\ Cardinality(own) = 1
                       /\ \A i \in own :
                             index[term][i].term_frequency = AddedCount(term, doc_id)
        /\ getDocumentFrequency(index, term)
              = Cardinality({t \in Threads : AddedCount(term, ThreadDocId[t]) > 0})

C33_Witness ==
    /\ \A t \in Threads : thread[t].pc = "idle"
    /\ getDocumentFrequency(index, 1) = Cardinality(Threads)
    /\ AddedCount(1, ThreadDocId["u1"]) = 2

EndsWith(token, suffix) ==
    /\ Len(token) >= Len(suffix)
    /\ SubSeq(token, Len(token) - Len(suffix) + 1, Len(token)) = suffix

\* the token with each suffix rule of the stemmer that fits applied on its own
OneRuleApplied(token) ==
    LET cut(suffix, ending) ==
            IF EndsWith(token, suffix)
            THEN {SubSeq(token, 1, Len(token) - Len(suffix)) \o ending} ELSE {}
    IN  cut(<<"a", "t", "i", "o", "n", "a", "l">>, <<"a", "t", "e">>)
        \cup cut(<<"t", "i", "o", "n", "a", "l">>, <<"t", "i", "o", "n">>)
        \cup cut(<<"i", "o", "n", "a", "l">>, <<"i", "o", "n">>)
        \cup cut(<<"i", "n", "g">>, <<>>) \cup cut(<<"e", "d">>, <<>>)
        \cup cut(<<"l", "y">>, <<>>) \cup cut(<<"s">>, <<>>)

\* C40: the SIMPLE stemmer returns a token of fewer than 4 characters
\* unchanged and applies at most one suffix rule to a longer one; "ational"
\* becomes "ate", "tional" not after "a" becomes "tion", and "ional" not after
\* "t" loses its final "al".
C40_SimpleStemRules ==
    lastOp.op = "simpleStem"
        => LET token == lastOp.arg
               ational == EndsWith(token, <<"a", "t", "i", "o", "n", "a", "l">>)
               tional == EndsWith(token, <<"t", "i", "o", "n", "a", "l">>)
               ional == EndsWith(token, <<"i", "o", "n", "a", "l">>)
           IN  /\ Len(token) < 4 => lastOp.ret = token
               /\ lastOp.ret \in {token} \cup OneRuleApplied(token)
               /\ ational => lastOp.ret = SubSeq(token, 1, Len(token) - 7) \o <<"a", "t", "e">>
               /\ (tional /\ ~ational)
                     => lastOp.ret = SubSeq(token, 1, Len(token) - 6) \o <<"t", "i", "o", "n">>
               /\ (ional /\ ~tional) => lastOp.ret = SubSeq(token, 1, Len(token) - 2)

\* C39: two query strings with the same normalized form have the same
\* extractTerms list, white space inside quoted phrases included.
C39_SameKeySameTerms ==
    (lastOp.op = "search" /\ "key" \in DOMAIN lastOp /\ lastOp.key[1] = lastOp.key[2])
        => lastOp.ret[1] = lastOp.ret[2]

\* C36: findMatches(term, d, m) returns the first m entries of the list of
\* all vocabulary terms whose edit distance to term is at most the effective
\* bound (d, or autoMaxEditDistance(|term|) when d = 0), sorted by distance and
\* then by matched term: the bigram filter drops no term within the bound.
C36_FindMatchesReturnsAllWithinBound ==
    lastOp.op = "findMatches"
        => LET vocabulary == lastOp.arg[1]
               term == lastOp.arg[2]
               bound == IF lastOp.arg[3] = 0 THEN autoMaxEditDistance(Len(term))
                        ELSE lastOp.arg[3]
               within == {FuzzyMatchOf(term, v, damerauLevenshteinDistance(term, v, bound)) :
                             v \in {x \in vocabulary :
                                       damerauLevenshteinDistance(term, x, bound) <= bound}}
               all == SortMatches(within)
               m == IF Len(all) < lastOp.arg[4] THEN Len(all) ELSE lastOp.arg[4]
           IN  lastOp.ret = SubSeq(all, 1, m)


\* the vocabulary terms within the edit distance findMatches allows for the term
FuzzyCandidates(vocabulary, term, max_edit_distance) ==
    LET bound == IF max_edit_distance = 0 THEN autoMaxEditDistance(Len(term))
                 ELSE max_edit_distance
    IN  {v \in vocabulary : damerauLevenshteinDistance(term, v, bound) <= bound}

\* the candidate of smallest distance, the lexicographically smallest of those
BestCandidate(vocabulary, term, max_edit_distance) ==
    LET bound == IF max_edit_distance = 0 THEN autoMaxEditDistance(Len(term))
                 ELSE max_edit_distance
        near == FuzzyCandidates(vocabulary, term, max_edit_distance)
        dist(v) == damerauLevenshteinDistance(term, v, bound)
    IN  CHOOSE v \in near :
            \A w \in near : w = v \/ dist(v) < dist(w)
                                  \/ (dist(v) = dist(w) /\ StringLess(v, w))

\* C31: in a search with fuzzy_enabled a query term with df > 0 is not
\* substituted and is not in expanded_terms; a term with df 0 is replaced by a
\* shortest vocabulary term that starts with it if there is one, otherwise by
\* the best fuzzy match (smallest distance, then lexicographically smallest) if
\* there is one, otherwise kept; the substitutions are what the results carry.
C31_FuzzyExpansion ==
    lastOp.op = "search"
        => LET vocabulary == lastOp.arg[1]
               query_terms == lastOp.arg[3]
               d == lastOp.arg[4]
               attached == lastOp.ret.expanded_terms
           IN  \A i \in DOMAIN query_terms :
                  LET term == query_terms[i]
                      prefixed == {v \in vocabulary : StartsWith(v, term)}
                  IN  IF term \in vocabulary
                      THEN term \notin DOMAIN attached /\ lastOp.ret.query_terms[i] = term
                      ELSE IF prefixed # {}
                      THEN /\ term \in DOMAIN attached
                           /\ attached[term] \in prefixed
                           /\ \A v \in prefixed : Len(attached[term]) <= Len(v)
                           /\ lastOp.ret.query_terms[i] = attached[term]
                      ELSE IF FuzzyCandidates(vocabulary, term, d) # {}
                      THEN /\ term \in DOMAIN attached
                           /\ attached[term] = BestCandidate(vocabulary, term, d)
                           /\ lastOp.ret.query_terms[i] = attached[term]
                      ELSE term \notin DOMAIN attached /\ lastOp.ret.query_terms[i] = term


\* C37: once the fuzzy n-gram index is built, between the operations of the
\* engine its vocabulary is the vocabulary of the inverted index, so that every
\* term findMatches can return as a substitute has df > 0 in the index.
C37_FuzzyVocabularyIsIndexVocabulary ==
    fuzzy_search_.index_built_
        => /\ fuzzy_search_.vocabulary_ = getVocabulary(index)
           /\ \A term \in fuzzy_search_.vocabulary_ : getDocumentFrequency(index, term) > 0

\* C38: a search with use_cache returns what an uncached search with the same
\* query and options would return from the registry as it is at the search,
\* also after setDefaultRanker changed the default or registerCustomRanker
\* replaced the ranker under a registered name.
C38_CachedResultFromCurrentRanker ==
    [][(CallStep /\ lastOp'.op = "search" /\ lastOp'.arg[2].use_cache)
         => lastOp'.ret \in ComputeRanked(ranker_registry_, documents, index,
                                          lastOp'.arg[1], lastOp'.arg[2])]_vars

\* a tree without a null pointer in it, every AND and OR node with a child,
\* every PHRASE node with a term and a distance that is not negative
RECURSIVE WellFormed(_)
WellFormed(node) ==
    CASE node.type = "TERM" -> TRUE
      [] node.type = "PHRASE" -> node.terms # <<>> /\ node.max_distance >= 0
      [] node.type = "FIELD" -> WellFormed(node.query)
      [] node.type = "NOT" -> WellFormed(node.child)
      [] node.type \in {"AND", "OR"} ->
             /\ node.children # <<>>
             /\ \A k \in DOMAIN node.children : WellFormed(node.children[k])
      [] OTHER -> FALSE

\* C32: parse returns for every query string a tree that is not null and is
\* well formed (AND and OR nodes with at least one child and no null child, NOT
\* and FIELD nodes with one child that is not null, PHRASE nodes with at least
\* one term and max_distance >= 0); a parse error gives the TermNode of the
\* original string and the empty string gives TermNode("").
C32_ParseReturnsWellFormedTree ==
    lastOp.op = "parse"
        => /\ lastOp.ret # nullptr
           /\ WellFormed(lastOp.ret)
           /\ lastOp.error => lastOp.ret = TermNode(lastOp.arg)
           /\ lastOp.arg = <<>> => lastOp.ret = TermNode(<<>>)
====
